---------------------------- MODULE Spec2Model ----------------------------
(***************************************************************************)
(* Model of the task classification and aggregation core of the RCW        *)
(* Processing Suite: app/services/category_mapper.py (signal extraction,   *)
(* scope fragment, template-first matching, name synthesis, the stateful   *)
(* CategoryMapper) and app/services/aggregator.py (aggregate_data).        *)
(*                                                                         *)
(* A Python str is modelled as a sequence of one-character strings, so the *)
(* regular expressions and slicing of the source are computed character by *)
(* character.  None is the empty tuple and a present optional value x is   *)
(* the one-element tuple <<x>>.  Dollar amounts are integers.              *)
(***************************************************************************)
EXTENDS Integers, Sequences, FiniteSets, TLC

(***************************************************************************)
(* Characters and the character classes of Python's str and re modules.    *)
(* An ASCII character is the string of that character; any other           *)
(* character is named by its code point, "<U+00E9>" for U+00E9, and the    *)
(* two dashes of the source's patterns by "<en-dash>" and "<em-dash>".     *)
(* The classes hold ASCII, Latin-1 (U+0080..U+00FF), every Unicode white   *)
(* space, the Arabic-Indic digits, U+0130, U+0131, U+017F and U+212A (the  *)
(* characters re.IGNORECASE equates with ASCII letters) and the upper-case *)
(* forms of these; other characters are not among the model's inputs.      *)
(***************************************************************************)
LowerLetters == <<"a","b","c","d","e","f","g","h","i","j","k","l","m",
                  "n","o","p","q","r","s","t","u","v","w","x","y","z">>
UpperLetters == <<"A","B","C","D","E","F","G","H","I","J","K","L","M",
                  "N","O","P","Q","R","S","T","U","V","W","X","Y","Z">>
\* \d of the re module on str: the decimal digits
Digits == {"0","1","2","3","4","5","6","7","8","9",
    "<U+0660>", "<U+0661>", "<U+0662>", "<U+0663>", "<U+0664>",
    "<U+0665>", "<U+0666>", "<U+0667>", "<U+0668>", "<U+0669>"}
LowerSet == {LowerLetters[i] : i \in 1..26}
\* \w of the re module on str: letters, numeric characters and "_"
WordChars == LowerSet \cup {UpperLetters[i] : i \in 1..26} \cup Digits \cup {"_",
    "<U+00AA>", "<U+00B2>", "<U+00B3>", "<U+00B5>", "<U+00B9>", "<U+00BA>", "<U+00BC>", "<U+00BD>",
    "<U+00BE>", "<U+00C0>", "<U+00C1>", "<U+00C2>", "<U+00C3>", "<U+00C4>", "<U+00C5>", "<U+00C6>",
    "<U+00C7>", "<U+00C8>", "<U+00C9>", "<U+00CA>", "<U+00CB>", "<U+00CC>", "<U+00CD>", "<U+00CE>",
    "<U+00CF>", "<U+00D0>", "<U+00D1>", "<U+00D2>", "<U+00D3>", "<U+00D4>", "<U+00D5>", "<U+00D6>",
    "<U+00D8>", "<U+00D9>", "<U+00DA>", "<U+00DB>", "<U+00DC>", "<U+00DD>", "<U+00DE>", "<U+00DF>",
    "<U+00E0>", "<U+00E1>", "<U+00E2>", "<U+00E3>", "<U+00E4>", "<U+00E5>", "<U+00E6>", "<U+00E7>",
    "<U+00E8>", "<U+00E9>", "<U+00EA>", "<U+00EB>", "<U+00EC>", "<U+00ED>", "<U+00EE>", "<U+00EF>",
    "<U+00F0>", "<U+00F1>", "<U+00F2>", "<U+00F3>", "<U+00F4>", "<U+00F5>", "<U+00F6>", "<U+00F8>",
    "<U+00F9>", "<U+00FA>", "<U+00FB>", "<U+00FC>", "<U+00FD>", "<U+00FE>", "<U+00FF>", "<U+0130>",
    "<U+0131>", "<U+0178>", "<U+017F>", "<U+039C>", "<U+212A>"}
\* \s of the re module on str, and what str.strip() removes: the
\* characters for which str.isspace() holds
WhiteSpace == {" ", "\t", "\n", "\r", "\f",
    "<U+000B>", "<U+001C>", "<U+001D>", "<U+001E>", "<U+001F>", "<U+0085>", "<U+00A0>",
    "<U+1680>", "<U+2000>", "<U+2001>", "<U+2002>", "<U+2003>", "<U+2004>", "<U+2005>", "<U+2006>",
    "<U+2007>", "<U+2008>", "<U+2009>", "<U+200A>", "<U+2028>", "<U+2029>", "<U+202F>", "<U+205F>",
    "<U+3000>"}
\* the class [-–—]: hyphen, en dash, em dash (the dashes are named)
DashChars == {"-", "<en-dash>", "<em-dash>"}
\* the class [-/_—] of normalize_task_text
SeparatorChars == {"-", "/", "_", "<em-dash>"}

\* the character to[i] for c = from[i], and c itself when it is not in from
Translate(from, to, c) ==
    IF \E i \in 1..Len(from) : from[i] = c
    THEN to[CHOOSE i \in 1..Len(from) : from[i] = c]
    ELSE c
\* str.upper() of one character: a string of one character, or of two for
\* the sharp s.  The characters outside ASCII that are replaced by one
\* other character are listed with these characters at the same positions.
UpperChar(c) ==
    IF c = "<U+00DF>" THEN <<"S", "S">>
    ELSE <<Translate(LowerLetters \o <<
    "<U+00B5>", "<U+00E0>", "<U+00E1>", "<U+00E2>", "<U+00E3>", "<U+00E4>", "<U+00E5>", "<U+00E6>",
    "<U+00E7>", "<U+00E8>", "<U+00E9>", "<U+00EA>", "<U+00EB>", "<U+00EC>", "<U+00ED>", "<U+00EE>",
    "<U+00EF>", "<U+00F0>", "<U+00F1>", "<U+00F2>", "<U+00F3>", "<U+00F4>", "<U+00F5>", "<U+00F6>",
    "<U+00F8>", "<U+00F9>", "<U+00FA>", "<U+00FB>", "<U+00FC>", "<U+00FD>", "<U+00FE>", "<U+00FF>",
    "<U+0131>", "<U+017F>" >>,
                     UpperLetters \o <<
    "<U+039C>", "<U+00C0>", "<U+00C1>", "<U+00C2>", "<U+00C3>", "<U+00C4>", "<U+00C5>", "<U+00C6>",
    "<U+00C7>", "<U+00C8>", "<U+00C9>", "<U+00CA>", "<U+00CB>", "<U+00CC>", "<U+00CD>", "<U+00CE>",
    "<U+00CF>", "<U+00D0>", "<U+00D1>", "<U+00D2>", "<U+00D3>", "<U+00D4>", "<U+00D5>", "<U+00D6>",
    "<U+00D8>", "<U+00D9>", "<U+00DA>", "<U+00DB>", "<U+00DC>", "<U+00DD>", "<U+00DE>", "<U+0178>",
    "I", "S" >>, c)>>
\* the index in s.upper() at which the upper-case form of s[i] begins
UpperStart(s, i) == i + Cardinality({j \in 1..(i - 1) : Len(UpperChar(s[j])) = 2})
\* the k-th character of s.upper(), which belongs to the form of s[i]
UpperAt(s, k, i) == UpperChar(s[i])[k - UpperStart(s, i) + 1]
\* str.upper()
Upper(s) ==
    IF \A i \in 1..Len(s) : s[i] # "<U+00DF>"
    THEN [i \in 1..Len(s) |-> UpperChar(s[i])[1]]
    ELSE [k \in 1..(UpperStart(s, Len(s) + 1) - 1) |->
             UpperAt(s, k, CHOOSE i \in 1..Len(s) :
                               UpperStart(s, i) <= k /\ k < UpperStart(s, i + 1))]
\* s as re.IGNORECASE compares it with a pattern of upper-case ASCII
\* letters: character by character, the length is kept; next to a-z, the
\* characters U+0130, U+0131, U+017F and U+212A equal I, I, S and K
IgnoreCase(s) ==
    [i \in 1..Len(s) |->
        Translate(LowerLetters \o <<"<U+0130>", "<U+0131>", "<U+017F>", "<U+212A>">>,
                  UpperLetters \o <<"I", "I", "S", "K">>, s[i])]

Min(S) == CHOOSE x \in S : \A y \in S : x <= y
Max(S) == CHOOSE x \in S : \A y \in S : x >= y

\* s[i:j] with 1-based inclusive bounds, empty when out of order
Slice(s, i, j) == IF i > j THEN <<>> ELSE SubSeq(s, i, j)

\* the pattern p occurs in s starting at index i
MatchAt(s, i, p) ==
    /\ i >= 1
    /\ i + Len(p) - 1 <= Len(s)
    /\ \A k \in 1..Len(p) : s[i + k - 1] = p[k]
\* p in s
Contains(s, p) == \E i \in 1..(Len(s) - Len(p) + 1) : MatchAt(s, i, p)
\* s.startswith(p)
StartsWith(s, p) == MatchAt(s, 1, p)
\* s.endswith(p)
EndsWith(s, p) == Len(p) <= Len(s) /\ MatchAt(s, Len(s) - Len(p) + 1, p)
\* re.search(r'\b' + p + r'\b', s) for a pattern p of word characters
HasWord(s, p) ==
    \E i \in 1..(Len(s) - Len(p) + 1) :
        /\ MatchAt(s, i, p)
        /\ (i = 1 \/ s[i - 1] \notin WordChars)
        /\ (i + Len(p) > Len(s) \/ s[i + Len(p)] \notin WordChars)

\* s.lstrip(chars) / s.rstrip(chars) / s.strip(chars)
LStripSet(s, C) ==
    LET keep == {i \in 1..Len(s) : s[i] \notin C}
    IN  IF keep = {} THEN <<>> ELSE SubSeq(s, Min(keep), Len(s))
RStripSet(s, C) ==
    LET keep == {i \in 1..Len(s) : s[i] \notin C}
    IN  IF keep = {} THEN <<>> ELSE SubSeq(s, 1, Max(keep))
StripSet(s, C) == LStripSet(RStripSet(s, C), C)
\* s.strip()
Strip(s) == StripSet(s, WhiteSpace)

\* s with the characters at the indices in R removed
DropIdx(s, R) ==
    IF R = {} THEN s
    ELSE [k \in 1..(Len(s) - Cardinality(R)) |->
             s[CHOOSE i \in (1..Len(s)) \ R : i - Cardinality({r \in R : r < i}) = k]]

\* re.sub(r'\s+', ' ', s)
CollapseWs(s) ==
    LET R == {i \in 2..Len(s) : s[i] \in WhiteSpace /\ s[i - 1] \in WhiteSpace}
        t == DropIdx(s, R)
    IN  [i \in 1..Len(t) |-> IF t[i] \in WhiteSpace THEN " " ELSE t[i]]

\* str(n) for n >= 0
DigitSeq == <<"0","1","2","3","4","5","6","7","8","9">>
RECURSIVE IntToStr(_)
IntToStr(n) ==
    IF n < 10 THEN <<DigitSeq[n + 1]>>
    ELSE IntToStr(n \div 10) \o <<DigitSeq[(n % 10) + 1]>>

(***************************************************************************)
(* The string literals of the source, as character sequences.              *)
(***************************************************************************)
Lit == [
    EXT_MARK |-> <<"(","E","X","T",")">>,
    EXT |-> <<"E","X","T">>,
    EXTERIOR |-> <<"E","X","T","E","R","I","O","R">>,
    INT_MARK |-> <<"(","I","N","T",")">>,
    INT |-> <<"I","N","T">>,
    INTERIOR |-> <<"I","N","T","E","R","I","O","R">>,
    UA_TAG |-> <<"[","U","A","]">>,
    UA |-> <<"U","A">>,
    OP_TAG |-> <<"[","O","P","]">>,
    LS_TAG |-> <<"[","L","S","]">>,
    ROLL |-> <<"R","O","L","L">>,
    WALL |-> <<"W","A","L","L">>,
    WALLS |-> <<"W","A","L","L","S">>,
    CEILING |-> <<"C","E","I","L","I","N","G">>,
    ROLL_WALL |-> <<"R","O","L","L"," ","W","A","L","L">>,
    ROLLED_WALL |-> <<"R","O","L","L","E","D"," ","W","A","L","L">>,
    PAINTING |-> <<"P","A","I","N","T","I","N","G">>,
    MISC |-> <<"M","I","S","C">>,
    EXT_SP |-> <<"E","X","T"," ">>,
    INT_SP |-> <<"I","N","T"," ">>,
    EXTERIOR_SP |-> <<"E","X","T","E","R","I","O","R"," ">>,
    INTERIOR_SP |-> <<"I","N","T","E","R","I","O","R"," ">>,
    SP_UA |-> <<" ","U","A">>,
    EXTERIOR_PAINTING |-> <<"E","X","T","E","R","I","O","R"," ","P","A","I","N","T","I","N","G">>,
    INTERIOR_PAINTING |-> <<"I","N","T","E","R","I","O","R"," ","P","A","I","N","T","I","N","G">>,
    BASE_SHOE_UA |-> <<"B","A","S","E"," ","S","H","O","E"," ","U","A">>,
    BASE_SHOE |-> <<"B","A","S","E"," ","S","H","O","E">>,
    UNDERCOAT_UA |-> <<"U","N","D","E","R","C","O","A","T"," ","U","A">>,
    UNDERCOAT |-> <<"U","N","D","E","R","C","O","A","T">>,
    TOUCH_UP_UA |-> <<"T","O","U","C","H"," ","U","P"," ","U","A">>,
    TOUCH_UP |-> <<"T","O","U","C","H"," ","U","P">>,
    ROLL_WALLS_FINAL_UA |-> <<"R","O","L","L"," ","W","A","L","L","S"," ","F","I","N","A","L"," ","U","A">>,
    ROLL_WALLS_FINAL |-> <<"R","O","L","L"," ","W","A","L","L","S"," ","F","I","N","A","L">>,
    EXT_PRIME_UA |-> <<"E","X","T"," ","P","R","I","M","E"," ","U","A">>,
    EXT_PRIME |-> <<"E","X","T"," ","P","R","I","M","E">>,
    EXTERIOR_UA |-> <<"E","X","T","E","R","I","O","R"," ","U","A">>,
    INTERIOR_UA |-> <<"I","N","T","E","R","I","O","R"," ","U","A">>,
    UNMAPPED |-> <<"U","N","M","A","P","P","E","D">>,
    EXT_token |-> <<"E","X","T"," ","t","o","k","e","n">>,
    INT_token |-> <<"I","N","T"," ","t","o","k","e","n">>,
    undercoat_ |-> <<"u","n","d","e","r","c","o","a","t",":">>,
    prime_ |-> <<"p","r","i","m","e",":">>,
    touchup_ |-> <<"t","o","u","c","h","u","p",":">>,
    baseshoe_ |-> <<"b","a","s","e","s","h","o","e",":">>,
    rollwalls_near |-> <<"r","o","l","l","w","a","l","l","s",":","R","O","L","L"," ","n","e","a","r"," ","W","A","L","L","/","C","E","I","L","I","N","G">>,
    rollwalls_wall |-> <<"r","o","l","l","w","a","l","l","s",":","R","O","L","L"," ","W","A","L","L">>,
    EMPTY_TASK |-> <<"(","e","m","p","t","y"," ","t","a","s","k",")">>,
    AUTO_CREATED |-> <<"[","A","U","T","O","-","C","R","E","A","T","E","D","]"," ">>,
    lot_block |-> <<"l","o","t","_","b","l","o","c","k">>,
    plan |-> <<"p","l","a","n">>,
    total |-> <<"t","o","t","a","l">>
]
\* parse_signals: undercoat_keywords
undercoat_keywords == <<
    <<"U","N","D","E","R","C","O","A","T">>,
    <<"F","I","R","S","T"," ","C","O","A","T">>
>>
\* parse_signals: prime_keywords
prime_keywords == <<
    <<"P","R","I","M","E">>,
    <<"P","R","I","M","E","R">>,
    <<"P","R","I","M","I","N","G">>,
    <<"S","E","A","L">>,
    <<"S","E","A","L","E","R">>,
    <<"S","A","N","D">>,
    <<"B","L","O","C","K">>,
    <<"B","L","O","C","K","O","U","T">>,
    <<"P","R","E","P">>,
    <<"C","A","U","L","K">>,
    <<"P","A","T","C","H">>,
    <<"F","A","S","C","I","A">>
>>
\* parse_signals: touchup_keywords
touchup_keywords == <<
    <<"T","O","U","C","H"," ","U","P">>,
    <<"T","O","U","C","H","U","P">>,
    <<"T","O","U","C","H","-","U","P">>,
    <<"P","U","N","C","H">>,
    <<"A","F","T","E","R"," ","C","A","R","P","E","T">>
>>
\* parse_signals: baseshoe_keywords
baseshoe_keywords == <<
    <<"B","A","S","E"," ","S","H","O","E">>,
    <<"B","A","S","E","B","O","A","R","D">>,
    <<"S","H","O","E"," ","M","O","L","D">>,
    <<"S","H","O","E"," ","M","O","U","L","D">>
>>
\* CategoryMapper.__init__: self.default_categories
default_categories == <<
    <<"E","X","T"," ","P","R","I","M","E">>,
    <<"E","X","T","E","R","I","O","R">>,
    <<"E","X","T","E","R","I","O","R"," ","U","A">>,
    <<"I","N","T","E","R","I","O","R">>,
    <<"B","A","S","E"," ","S","H","O","E">>,
    <<"R","O","L","L"," ","W","A","L","L","S"," ","F","I","N","A","L">>,
    <<"T","O","U","C","H"," ","U","P">>,
    <<"Q","4"," ","R","E","V","E","R","S","A","L">>
>>

(***************************************************************************)
(* Inputs: the task texts the model is run on.                             *)
(***************************************************************************)
TaskTexts == <<
    \* ''
    <<>>,
    \* '& AAAAAAAAAAAAAAAAAAAAAAAAAAAAAAAAAAAAAAAA'
    <<"&"," ","A","A","A","A","A","A","A","A","A","A","A","A","A","A","A","A","A","A","A","A","A","A","A","A","A","A","A","A","A","A","A","A","A","A","A","A","A","A","A","A">>,
    \* 'Touch up kitchen'
    <<"T","o","u","c","h"," ","u","p"," ","k","i","t","c","h","e","n">>,
    \* 'Touch Up'
    <<"T","o","u","c","h"," ","U","p">>,
    \* 'Painting - Spray Overhang (EXT) [UA]'
    <<"P","a","i","n","t","i","n","g"," ","-"," ","S","p","r","a","y"," ","O","v","e","r","h","a","n","g"," ","(","E","X","T",")"," ","[","U","A","]">>,
    \* 'Spray overhang (EXT) [UA] [LS]'
    <<"S","p","r","a","y"," ","o","v","e","r","h","a","n","g"," ","(","E","X","T",")"," ","[","U","A","]"," ","[","L","S","]">>,
    \* '(Exterior) .'
    <<"(","E","x","t","e","r","i","o","r",")"," ",".">>,
    \* 'Painting - Square Footage Adjustment Garage Walls [UA]'
    <<"P","a","i","n","t","i","n","g"," ","-"," ","S","q","u","a","r","e"," ","F","o","o","t","a","g","e"," ","A","d","j","u","s","t","m","e","n","t"," ","G","a","r","a","g","e"," ","W","a","l","l","s"," ","[","U","A","]">>,
    \* 'Painting - Exterior Prime/Fascia (437220) (EXT) [LS] [OP]'
    <<"P","a","i","n","t","i","n","g"," ","-"," ","E","x","t","e","r","i","o","r"," ","P","r","i","m","e","/","F","a","s","c","i","a"," ","(","4","3","7","2","2","0",")"," ","(","E","X","T",")"," ","[","L","S","]"," ","[","O","P","]">>,
    \* 'Painting - Kitchen Cabinets (INT)'
    <<"P","a","i","n","t","i","n","g"," ","-"," ","K","i","t","c","h","e","n"," ","C","a","b","i","n","e","t","s"," ","(","I","N","T",")">>,
    \* 'Painting - Interior (INT)'
    <<"P","a","i","n","t","i","n","g"," ","-"," ","I","n","t","e","r","i","o","r"," ","(","I","N","T",")">>,
    \* 'Painting - Exterior (EXT) [UA]'
    <<"P","a","i","n","t","i","n","g"," ","-"," ","E","x","t","e","r","i","o","r"," ","(","E","X","T",")"," ","[","U","A","]">>,
    \* 'Square Footage Adjustment Garage'
    <<"S","q","u","a","r","e"," ","F","o","o","t","a","g","e"," ","A","d","j","u","s","t","m","e","n","t"," ","G","a","r","a","g","e">>,
    \* 'Straße café (EXT)', with U+00DF and U+00E9
    <<"S","t","r","a","<U+00DF>","e"," ","c","a","f","<U+00E9>"," ","(","E","X","T",")">>,
    \* 'Touch' U+00A0 'up', with a no-break space
    <<"T","o","u","c","h","<U+00A0>","u","p">>
>>
TaskPool == {TaskTexts[i] : i \in 1..Len(TaskTexts)}

(***************************************************************************)
(* canonical, normalize_task_text, extract_scope_fragment                  *)
(***************************************************************************)
canonical(s) ==
    IF s = <<>> THEN <<>>
    ELSE LET u == Strip(Upper(s))
             \* re.sub(r'^[^\w]+|[^\w]+$', '', result)
             keep == {i \in 1..Len(u) : u[i] \in WordChars}
             core == IF keep = {} THEN <<>> ELSE SubSeq(u, Min(keep), Max(keep))
         IN  CollapseWs(core)

normalize_task_text(text) ==
    IF text = <<>> THEN <<>>
    ELSE LET u == Upper(text)
             r == [i \in 1..Len(u) |-> IF u[i] \in SeparatorChars THEN " " ELSE u[i]]
         IN  Strip(CollapseWs(r))

\* number of leading characters of s, from index i on, that are in C
RunLen(s, i, C) ==
    LET stop == {j \in i..Len(s) : s[j] \notin C}
    IN  IF stop = {} THEN Len(s) - i + 1 ELSE Min(stop) - i

\* s matches ^\d{a}[-/]\d{b}[-/]\d{c}
DateAt(s, a, b, c) ==
    /\ Len(s) >= a + b + c + 2
    /\ \A i \in 1..a : s[i] \in Digits
    /\ s[a + 1] \in {"-", "/"}
    /\ \A i \in (a + 2)..(a + b + 1) : s[i] \in Digits
    /\ s[a + b + 2] \in {"-", "/"}
    /\ \A i \in (a + b + 3)..(a + b + c + 2) : s[i] \in Digits
\* re.sub(r'^\d{a}[-/]\d{b}[-/]\d{c}\s*', '', s)
StripDate(s, a, b, c) ==
    IF DateAt(s, a, b, c)
    THEN LET n == a + b + c + 2
         IN  Slice(s, n + 1 + RunLen(s, n + 1, WhiteSpace), Len(s))
    ELSE s
\* re.sub(r'^PAINTING\s*[-–—]?\s*', '', s, flags=re.IGNORECASE)
StripPainting(s) ==
    IF StartsWith(IgnoreCase(s), Lit.PAINTING)
    THEN LET i1 == 9 + RunLen(s, 9, WhiteSpace)
             i2 == IF i1 <= Len(s) /\ s[i1] \in DashChars THEN i1 + 1 ELSE i1
             i3 == i2 + RunLen(s, i2, WhiteSpace)
         IN  Slice(s, i3, Len(s))
    ELSE s
\* the indices covered by matches of open + class{atLeast,} + close
SpanIdx(s, open, C, atLeast, close) ==
    UNION { LET n == RunLen(s, i + 1, C)
                j == i + 1 + n
            IN  IF s[i] = open /\ n >= atLeast /\ j <= Len(s) /\ s[j] = close
                THEN i..j ELSE {}
            : i \in 1..Len(s) }
\* the indices covered by case-insensitive occurrences of p
OccIdx(s, p) ==
    UNION { IF MatchAt(IgnoreCase(s), i, p) THEN i..(i + Len(p) - 1) ELSE {}
            : i \in 1..Len(s) }
\* re.sub(r'\s*[-–—]\s*$', '', s)
StripTrailingDash(s) ==
    LET r == RStripSet(s, WhiteSpace)
    IN  IF r # <<>> /\ r[Len(r)] \in DashChars
        THEN RStripSet(SubSeq(r, 1, Len(r) - 1), WhiteSpace)
        ELSE s

\* re.sub(r'\[[\w\s\-]+\]', '', s)
StripBracketTags(s) ==
    DropIdx(s, SpanIdx(s, "[", WordChars \cup WhiteSpace \cup {"-"}, 1, "]"))
\* re.sub(r'\(\d{5,}\)', '', s)
StripTradeCodes(s) == DropIdx(s, SpanIdx(s, "(", Digits, 5, ")"))
\* re.sub(r'\(INT\)', '', s, flags=re.IGNORECASE), and the same for (EXT)
StripMarker(s, marker) == DropIdx(s, OccIdx(s, marker))

\* the substitutions in the order of the source, innermost first
extract_scope_fragment_impl(task_text) ==
    IF task_text = <<>> THEN <<>>
    ELSE Strip(CollapseWs(StripTrailingDash(
             StripMarker(StripMarker(
                 StripTradeCodes(StripBracketTags(StripPainting(
                     StripDate(StripDate(Strip(task_text), 4, 2, 2), 2, 2, 4)))),
                 Lit.INT_MARK), Lit.EXT_MARK))))

\* extract_scope_fragment, tabulated once for the task texts of the model
ScopeTable == [t \in TaskPool |-> extract_scope_fragment_impl(t)]
extract_scope_fragment(task_text) ==
    IF task_text \in TaskPool THEN ScopeTable[task_text]
    ELSE extract_scope_fragment_impl(task_text)

(***************************************************************************)
(* parse_signals                                                           *)
(***************************************************************************)
None == <<>>
Some(x) == <<x>>
\* Python truthiness of an optional string: neither None nor ""
Truthy(o) == o # None /\ o[1] # <<>>

\* index of the first keyword the loop stops at, 0 when there is none;
\* flags[i] tells whether the test of the loop holds for the i-th keyword
FirstKw(flags) ==
    LET hits == {i \in 1..Len(flags) : flags[i]}
    IN  IF hits = {} THEN 0 ELSE Min(hits)

\* kw.replace("-", " ")
DashToSpace(kw) == [i \in 1..Len(kw) |-> IF kw[i] = "-" THEN " " ELSE kw[i]]

\* the tail (?:\w+\s+){0,10}(?:WALL|WALLS|CEILING) matched at index i,
\* with k repetitions of the group already taken
RECURSIVE RollTail(_, _, _)
RollTail(s, i, k) ==
    \/ MatchAt(s, i, Lit.WALL)
    \/ MatchAt(s, i, Lit.WALLS)
    \/ MatchAt(s, i, Lit.CEILING)
    \/ /\ k < 10
       /\ LET w  == RunLen(s, i, WordChars)
              sp == RunLen(s, i + w, WhiteSpace)
          IN  w >= 1 /\ sp >= 1 /\ RollTail(s, i + w + sp, k + 1)
\* re.search(r'ROLL\w*\s+(?:\w+\s+){0,10}(?:WALL|WALLS|CEILING)', s)
RollNearWall(s) ==
    \E i \in 1..Len(s) :
        /\ MatchAt(s, i, Lit.ROLL)
        /\ LET w  == RunLen(s, i + 4, WordChars)
               sp == RunLen(s, i + 4 + w, WhiteSpace)
           IN  sp >= 1 /\ RollTail(s, i + 4 + w + sp, 0)

DefaultSignals ==
    [is_ext |-> FALSE, is_int |-> FALSE, is_ua |-> FALSE, is_op |-> FALSE,
     is_ls |-> FALSE, keyword_undercoat |-> FALSE, keyword_prime |-> FALSE,
     keyword_touchup |-> FALSE, keyword_rollwalls |-> FALSE,
     keyword_baseshoe |-> FALSE, matched_keywords |-> <<>>]

\* a faulty variant: the interior tiers are tried only when no exterior
\* tier matched, so a text with markers of both kinds is exterior only
parse_signals_int_after_ext(task_text) ==
    IF task_text = <<>> THEN DefaultSignals
    ELSE
    LET normalized == normalize_task_text(task_text)
        ext1 == Contains(normalized, Lit.EXT_MARK)
        ext2 == HasWord(normalized, Lit.EXT) /\ ~Contains(normalized, Lit.EXTERIOR)
        ext3 == Contains(normalized, Lit.EXTERIOR)
        int1 == ~ext3 /\ ~HasWord(normalized, Lit.EXT) /\ Contains(normalized, Lit.INT_MARK)
        int2 == ~ext3 /\ ~HasWord(normalized, Lit.EXT) /\ HasWord(normalized, Lit.INT) /\ ~Contains(normalized, Lit.INTERIOR)
        int3 == ~ext3 /\ ~HasWord(normalized, Lit.EXT) /\ Contains(normalized, Lit.INTERIOR)
        ua   == Contains(normalized, Lit.UA_TAG) \/ HasWord(normalized, Lit.UA)
        op   == Contains(normalized, Lit.OP_TAG)
        ls   == Contains(normalized, Lit.LS_TAG)
        InText(kw) == Contains(normalized, kw)
        AsWord(kw) == HasWord(normalized, kw)
        Touch(kw)  == Contains(normalized, DashToSpace(kw)) \/ Contains(normalized, kw)
        uc   == FirstKw([i \in 1..Len(undercoat_keywords) |-> InText(undercoat_keywords[i])])
        pr   == FirstKw([i \in 1..Len(prime_keywords) |-> AsWord(prime_keywords[i])])
        tu   == FirstKw([i \in 1..Len(touchup_keywords) |-> Touch(touchup_keywords[i])])
        rw1  == RollNearWall(normalized)
        rw2  == Contains(normalized, Lit.ROLL_WALL) \/ Contains(normalized, Lit.ROLLED_WALL)
        bs   == FirstKw([i \in 1..Len(baseshoe_keywords) |-> InText(baseshoe_keywords[i])])
        mk   == (IF ext1 THEN <<Lit.EXT_MARK>>
                 ELSE IF ext2 THEN <<Lit.EXT_token>>
                 ELSE IF ext3 THEN <<Lit.EXTERIOR>> ELSE <<>>)
             \o (IF int1 THEN <<Lit.INT_MARK>>
                 ELSE IF int2 THEN <<Lit.INT_token>>
                 ELSE IF int3 THEN <<Lit.INTERIOR>> ELSE <<>>)
             \o (IF ua THEN <<Lit.UA>> ELSE <<>>)
             \o (IF op THEN <<Lit.OP_TAG>> ELSE <<>>)
             \o (IF ls THEN <<Lit.LS_TAG>> ELSE <<>>)
             \o (IF uc > 0 THEN <<Lit.undercoat_ \o undercoat_keywords[uc]>> ELSE <<>>)
             \o (IF pr > 0 THEN <<Lit.prime_ \o prime_keywords[pr]>> ELSE <<>>)
             \o (IF tu > 0 THEN <<Lit.touchup_ \o touchup_keywords[tu]>> ELSE <<>>)
             \o (IF rw1 THEN <<Lit.rollwalls_near>>
                 ELSE IF rw2 THEN <<Lit.rollwalls_wall>> ELSE <<>>)
             \o (IF bs > 0 THEN <<Lit.baseshoe_ \o baseshoe_keywords[bs]>> ELSE <<>>)
    IN  [is_ext |-> ext1 \/ ext2 \/ ext3,
         is_int |-> int1 \/ int2 \/ int3,
         is_ua |-> ua, is_op |-> op, is_ls |-> ls,
         keyword_undercoat |-> uc > 0,
         keyword_prime |-> pr > 0,
         keyword_touchup |-> tu > 0,
         keyword_rollwalls |-> rw1 \/ rw2,
         keyword_baseshoe |-> bs > 0,
         matched_keywords |-> mk]

parse_signals_impl(task_text) ==
    IF task_text = <<>> THEN DefaultSignals
    ELSE
    LET normalized == normalize_task_text(task_text)
        ext1 == Contains(normalized, Lit.EXT_MARK)
        ext2 == HasWord(normalized, Lit.EXT) /\ ~Contains(normalized, Lit.EXTERIOR)
        ext3 == Contains(normalized, Lit.EXTERIOR)
        int1 == Contains(normalized, Lit.INT_MARK)
        int2 == HasWord(normalized, Lit.INT) /\ ~Contains(normalized, Lit.INTERIOR)
        int3 == Contains(normalized, Lit.INTERIOR)
        ua   == Contains(normalized, Lit.UA_TAG) \/ HasWord(normalized, Lit.UA)
        op   == Contains(normalized, Lit.OP_TAG)
        ls   == Contains(normalized, Lit.LS_TAG)
        InText(kw) == Contains(normalized, kw)
        AsWord(kw) == HasWord(normalized, kw)
        Touch(kw)  == Contains(normalized, DashToSpace(kw)) \/ Contains(normalized, kw)
        uc   == FirstKw([i \in 1..Len(undercoat_keywords) |-> InText(undercoat_keywords[i])])
        pr   == FirstKw([i \in 1..Len(prime_keywords) |-> AsWord(prime_keywords[i])])
        tu   == FirstKw([i \in 1..Len(touchup_keywords) |-> Touch(touchup_keywords[i])])
        rw1  == RollNearWall(normalized)
        rw2  == Contains(normalized, Lit.ROLL_WALL) \/ Contains(normalized, Lit.ROLLED_WALL)
        bs   == FirstKw([i \in 1..Len(baseshoe_keywords) |-> InText(baseshoe_keywords[i])])
        mk   == (IF ext1 THEN <<Lit.EXT_MARK>>
                 ELSE IF ext2 THEN <<Lit.EXT_token>>
                 ELSE IF ext3 THEN <<Lit.EXTERIOR>> ELSE <<>>)
             \o (IF int1 THEN <<Lit.INT_MARK>>
                 ELSE IF int2 THEN <<Lit.INT_token>>
                 ELSE IF int3 THEN <<Lit.INTERIOR>> ELSE <<>>)
             \o (IF ua THEN <<Lit.UA>> ELSE <<>>)
             \o (IF op THEN <<Lit.OP_TAG>> ELSE <<>>)
             \o (IF ls THEN <<Lit.LS_TAG>> ELSE <<>>)
             \o (IF uc > 0 THEN <<Lit.undercoat_ \o undercoat_keywords[uc]>> ELSE <<>>)
             \o (IF pr > 0 THEN <<Lit.prime_ \o prime_keywords[pr]>> ELSE <<>>)
             \o (IF tu > 0 THEN <<Lit.touchup_ \o touchup_keywords[tu]>> ELSE <<>>)
             \o (IF rw1 THEN <<Lit.rollwalls_near>>
                 ELSE IF rw2 THEN <<Lit.rollwalls_wall>> ELSE <<>>)
             \o (IF bs > 0 THEN <<Lit.baseshoe_ \o baseshoe_keywords[bs]>> ELSE <<>>)
    IN  [is_ext |-> ext1 \/ ext2 \/ ext3,
         is_int |-> int1 \/ int2 \/ int3,
         is_ua |-> ua, is_op |-> op, is_ls |-> ls,
         keyword_undercoat |-> uc > 0,
         keyword_prime |-> pr > 0,
         keyword_touchup |-> tu > 0,
         keyword_rollwalls |-> rw1 \/ rw2,
         keyword_baseshoe |-> bs > 0,
         matched_keywords |-> mk]

\* parse_signals, tabulated once for the task texts of the model
SignalsTable == [t \in TaskPool |-> parse_signals_impl(t)]
parse_signals(task_text) ==
    IF task_text \in TaskPool THEN SignalsTable[task_text]
    ELSE parse_signals_impl(task_text)

(***************************************************************************)
(* map_category: the template-first rules.  The template is a function     *)
(* from canonical names to display names (a Python dict).                  *)
(***************************************************************************)
\* dict.get(key): None when the key is absent
template_has(template_canon_to_display, canon_key) ==
    IF canon_key \in DOMAIN template_canon_to_display
    THEN Some(template_canon_to_display[canon_key])
    ELSE None

\* re.sub(r'\([^)]*\)', '', s)
StripParens(s) ==
    LET close(i) == {j \in (i + 1)..Len(s) : s[j] = ")"}
        R == UNION { IF s[i] = "(" /\ close(i) # {} THEN i..Min(close(i)) ELSE {}
                     : i \in 1..Len(s) }
    IN  DropIdx(s, R)

\* scope_core of map_category
scope_core_of(task_text) == Upper(Strip(StripParens(extract_scope_fragment(task_text))))

scope_mentions_ext(scope_core) ==
    \/ scope_core \in {<<>>, Lit.EXTERIOR, Lit.EXT, Lit.EXTERIOR_PAINTING}
    \/ HasWord(scope_core, Lit.EXTERIOR)
    \/ HasWord(scope_core, Lit.EXT)
scope_mentions_int(scope_core) ==
    \/ scope_core \in {<<>>, Lit.INTERIOR, Lit.INT, Lit.INTERIOR_PAINTING}
    \/ HasWord(scope_core, Lit.INTERIOR)
    \/ HasWord(scope_core, Lit.INT)

Matched(display, reason) == [category_display |-> display, reason |-> reason]
Unmatched(reason) == [category_display |-> None, reason |-> reason]

\* rules 8a and 8b, reached when rules 1 to 7 returned nothing
map_category_interior(scope_core, signals, tmpl) ==
    LET hit8a ==signals.is_int /\ signals.is_ua /\ scope_mentions_int(scope_core)
        hit8b == signals.is_int /\ ~signals.is_ua /\ scope_mentions_int(scope_core)
    IN  IF hit8a /\ Truthy(template_has(tmpl, Lit.INTERIOR_UA))
        THEN Matched(template_has(tmpl, Lit.INTERIOR_UA), "matched_interior_ua")
        ELSE IF hit8a THEN Unmatched("unmapped_interior_ua")
        ELSE IF hit8b /\ Truthy(template_has(tmpl, Lit.INTERIOR))
        THEN Matched(template_has(tmpl, Lit.INTERIOR), "matched_interior")
        ELSE Unmatched("unmapped_template")

\* rules 6 and 7, reached when rules 1 to 5 returned nothing
map_category_exterior(scope_core, signals, tmpl) ==
    LET hit6 ==signals.is_ext /\ signals.is_ua /\ scope_mentions_ext(scope_core)
        hit7 == signals.is_ext /\ ~signals.is_ua /\ scope_mentions_ext(scope_core)
    IN  IF hit6 /\ Truthy(template_has(tmpl, Lit.EXTERIOR_UA))
        THEN Matched(template_has(tmpl, Lit.EXTERIOR_UA), "matched_exterior_ua")
        ELSE IF hit7 /\ Truthy(template_has(tmpl, Lit.EXTERIOR))
        THEN Matched(template_has(tmpl, Lit.EXTERIOR), "matched_exterior")
        ELSE map_category_interior(scope_core, signals, tmpl)

\* a faulty variant: a UA task whose UA entry is absent falls through to
\* the rule's non-UA entry
keyword_rule_falls_through(signals, tmpl, fired, ua_key, key, ua_reason, unmapped_reason, reason) ==
    IF ~fired THEN None
    ELSE IF signals.is_ua /\ Truthy(template_has(tmpl, ua_key))
         THEN Some(Matched(template_has(tmpl, ua_key), ua_reason))
         ELSE IF Truthy(template_has(tmpl, key))
              THEN Some(Matched(template_has(tmpl, key), reason))
              ELSE None

\* one keyword rule (rules 1 to 5): fired is the rule's signal, ua_key and
\* key its two template entries, then the rule's three reason strings.
\* The result is None when the rule falls through to the next one.
keyword_rule(signals, tmpl, fired, ua_key, key, ua_reason, unmapped_reason, reason) ==
    IF ~fired THEN None
    ELSE IF signals.is_ua
         THEN IF Truthy(template_has(tmpl, ua_key))
              THEN Some(Matched(template_has(tmpl, ua_key), ua_reason))
              ELSE Some(Unmatched(unmapped_reason))
         ELSE IF Truthy(template_has(tmpl, key))
              THEN Some(Matched(template_has(tmpl, key), reason))
              ELSE None

\* a faulty variant: the touch-up rule is tried before the base shoe rule
map_category_touchup_first(task_text, signals, tmpl) ==
    LET r1 == keyword_rule(signals, tmpl, signals.keyword_baseshoe,
                  Lit.BASE_SHOE_UA, Lit.BASE_SHOE,
                  "matched_baseshoe_ua", "unmapped_baseshoe_ua", "matched_baseshoe")
        r2 == keyword_rule(signals, tmpl, signals.keyword_undercoat,
                  Lit.UNDERCOAT_UA, Lit.UNDERCOAT,
                  "matched_undercoat_ua", "unmapped_undercoat_ua", "matched_undercoat")
        r3 == keyword_rule(signals, tmpl, signals.keyword_touchup,
                  Lit.TOUCH_UP_UA, Lit.TOUCH_UP,
                  "matched_touchup_ua", "unmapped_touchup_ua", "matched_touchup")
        r4 == keyword_rule(signals, tmpl, signals.keyword_rollwalls,
                  Lit.ROLL_WALLS_FINAL_UA, Lit.ROLL_WALLS_FINAL,
                  "matched_rollwalls_ua", "unmapped_rollwalls_ua", "matched_rollwalls")
        r5 == keyword_rule(signals, tmpl, signals.is_ext /\ signals.keyword_prime,
                  Lit.EXT_PRIME_UA, Lit.EXT_PRIME,
                  "matched_ext_prime_ua", "unmapped_ext_prime_ua", "matched_ext_prime")
    IN  IF r3 # None THEN r3[1]
        ELSE IF r1 # None THEN r1[1]
        ELSE IF r2 # None THEN r2[1]
        ELSE IF r4 # None THEN r4[1]
        ELSE IF r5 # None THEN r5[1]
        ELSE map_category_exterior(scope_core_of(task_text), signals, tmpl)

map_category(task_text, signals, tmpl) ==
    LET r1 == keyword_rule(signals, tmpl, signals.keyword_baseshoe,
                  Lit.BASE_SHOE_UA, Lit.BASE_SHOE,
                  "matched_baseshoe_ua", "unmapped_baseshoe_ua", "matched_baseshoe")
        r2 == keyword_rule(signals, tmpl, signals.keyword_undercoat,
                  Lit.UNDERCOAT_UA, Lit.UNDERCOAT,
                  "matched_undercoat_ua", "unmapped_undercoat_ua", "matched_undercoat")
        r3 == keyword_rule(signals, tmpl, signals.keyword_touchup,
                  Lit.TOUCH_UP_UA, Lit.TOUCH_UP,
                  "matched_touchup_ua", "unmapped_touchup_ua", "matched_touchup")
        r4 == keyword_rule(signals, tmpl, signals.keyword_rollwalls,
                  Lit.ROLL_WALLS_FINAL_UA, Lit.ROLL_WALLS_FINAL,
                  "matched_rollwalls_ua", "unmapped_rollwalls_ua", "matched_rollwalls")
        r5 == keyword_rule(signals, tmpl, signals.is_ext /\ signals.keyword_prime,
                  Lit.EXT_PRIME_UA, Lit.EXT_PRIME,
                  "matched_ext_prime_ua", "unmapped_ext_prime_ua", "matched_ext_prime")
    IN  IF r1 # None THEN r1[1]
        ELSE IF r2 # None THEN r2[1]
        ELSE IF r3 # None THEN r3[1]
        ELSE IF r4 # None THEN r4[1]
        ELSE IF r5 # None THEN r5[1]
        ELSE map_category_exterior(scope_core_of(task_text), signals, tmpl)

(***************************************************************************)
(* compute_base_category_name, create_category_name                        *)
(***************************************************************************)
max_len == 35

\* name[:limit].rsplit(' ', 1)[0]
CutAtWord(name, limit) ==
    LET cut == SubSeq(name, 1, limit)
        spaces == {i \in 1..Len(cut) : cut[i] = " "}
    IN  IF spaces = {} THEN cut ELSE SubSeq(cut, 1, Max(spaces) - 1)

\* the name needs the " UA" suffix appended
needs_ua_suffix(signals, name) == signals.is_ua /\ ~Contains(name, Lit.UA)

\* compute_base_category_name is a chain of assignments to name; each
\* operator below is one link, applied to the name the previous link left.

\* the fragment (or "MISC"), uppercased, whitespace collapsed, stripped
fragment_name(fragment) ==
    Strip(CollapseWs(Upper(IF fragment = <<>> THEN Lit.MISC ELSE fragment)))

\* the "EXT " / "INT " disambiguation prefix
add_location_prefix(signals, name) ==
    LET has_ext_prefix == StartsWith(name, Lit.EXT) \/ Contains(name, Lit.EXTERIOR)
        has_int_prefix == StartsWith(name, Lit.INT) \/ Contains(name, Lit.INTERIOR)
    IN  IF signals.is_ext /\ ~has_ext_prefix /\ ~has_int_prefix
        THEN Lit.EXT_SP \o name
        ELSE IF signals.is_int /\ ~has_int_prefix /\ ~has_ext_prefix
        THEN Lit.INT_SP \o name
        ELSE name

truncate_limit(signals, name) ==
    IF needs_ua_suffix(signals, name) THEN max_len - 3 ELSE max_len

\* the cut at a word boundary and the removal of trailing separators
truncate_name(name, limit) ==
    IF Len(name) > limit
    THEN RStripSet(CutAtWord(name, limit), {" ", "/", "-", "&"})
    ELSE name

\* the " UA" suffix, added after the truncation
add_ua_suffix(signals, name) ==
    IF needs_ua_suffix(signals, name) THEN name \o Lit.SP_UA ELSE name

\* lines 392 to 409, for the name with its location prefix
limit_length(signals, name) ==
    add_ua_suffix(signals, truncate_name(name, truncate_limit(signals, name)))

compute_base_category_name(task_text, signals) ==
    limit_length(signals,
        add_location_prefix(signals,
            fragment_name(extract_scope_fragment(task_text))))

\* the uniqueness loop of create_category_name, for the base name
unique_name(base_name, existing_canonicals) ==
    LET Numbered(counter) == base_name \o <<" ">> \o IntToStr(counter)
        \* the while loop stops at the first counter whose name is free
        free == {c \in 2..(Cardinality(existing_canonicals) + 2) :
                    canonical(Numbered(c)) \notin existing_canonicals}
    IN  IF canonical(base_name) \notin existing_canonicals
        THEN base_name
        ELSE Numbered(Min(free))

create_category_name(task_text, signals, existing_canonicals) ==
    unique_name(compute_base_category_name(task_text, signals), existing_canonicals)

(***************************************************************************)
(* CategoryMapper.  The object is a record of its four fields.             *)
(***************************************************************************)
\* the dict built by the loop of __init__: a later header overwrites an
\* earlier one with the same canonical form
CanonToDisplay(headers) ==
    [c \in {canonical(headers[i]) : i \in 1..Len(headers)} |->
        headers[Max({i \in 1..Len(headers) : canonical(headers[i]) = c})]]

\* CategoryMapper.__init__; template_headers is None or Some(list)
CategoryMapper(template_headers) ==
    LET headers == IF template_headers # None /\ template_headers[1] # <<>>
                   THEN template_headers[1]
                   ELSE default_categories
    IN  [category_headers          |-> headers,
         template_canon_to_display |-> CanonToDisplay(headers),
         created_categories        |-> <<>>,
         created_canonicals        |-> {}]

get_all_canonicals(self) ==
    DOMAIN self.template_canon_to_display \cup self.created_canonicals

MappingResult(category_display, reason, is_new_category, signals, task_text) ==
    [category_display |-> category_display,
     reason           |-> reason,
     is_new_category  |-> is_new_category,
     signals          |-> signals,
     scope_fragment   |-> extract_scope_fragment(task_text)]

\* a faulty variant: the new name is recorded in the created-canonical set
\* but not in template_canon_to_display, where map_task looks names up
register_category_not_indexed(self, new_name, task_text, signals) ==
    [category_headers          |-> Append(self.category_headers, new_name),
     template_canon_to_display |-> self.template_canon_to_display,
     created_categories        |->
         Append(self.created_categories,
                [header        |-> new_name,
                 example_tasks |-> <<task_text>>,
                 reason        |-> "auto_created",
                 signals       |-> signals]),
     created_canonicals        |-> self.created_canonicals \cup {canonical(new_name)}]

\* a faulty variant: the new header is inserted in front of the list
register_category_in_front(self, new_name, task_text, signals) ==
    [category_headers          |-> <<new_name>> \o self.category_headers,
     template_canon_to_display |->
         [c \in DOMAIN self.template_canon_to_display \cup {canonical(new_name)} |->
             IF c = canonical(new_name) THEN new_name
             ELSE self.template_canon_to_display[c]],
     created_categories        |->
         Append(self.created_categories,
                [header        |-> new_name,
                 example_tasks |-> <<task_text>>,
                 reason        |-> "auto_created",
                 signals       |-> signals]),
     created_canonicals        |-> self.created_canonicals \cup {canonical(new_name)}]

\* the registration of a new category by map_task
register_category(self, new_name, task_text, signals) ==
    LET new_canon == canonical(new_name)
        old == self.template_canon_to_display
    IN  [category_headers          |-> Append(self.category_headers, new_name),
         template_canon_to_display |->
             [c \in DOMAIN old \cup {new_canon} |->
                 IF c = new_canon THEN new_name ELSE old[c]],
         created_categories        |->
             Append(self.created_categories,
                    [header        |-> new_name,
                     example_tasks |-> <<task_text>>,
                     reason        |-> "auto_created",
                     signals       |-> signals]),
         created_canonicals        |-> self.created_canonicals \cup {new_canon}]

\* map_task from "Truly new category" on: the category new_name is
\* registered and returned
map_task_create(self, task_text, signals, new_name) ==
    [self   |-> register_category(self, new_name, task_text, signals),
     result |-> MappingResult(new_name, "auto_created", TRUE, signals, task_text)]

\* a faulty variant: the reuse of a category appends its name to the
\* headers once more
map_task_after_rules_reuse_appends(self, task_text, signals, matched, base_canon) ==
    IF Truthy(matched.category_display)
    THEN [self   |-> self,
          result |-> MappingResult(matched.category_display[1], matched.reason,
                                   FALSE, signals, task_text)]
    ELSE IF base_canon \in DOMAIN self.template_canon_to_display
    THEN [self   |-> [self EXCEPT !.category_headers =
                         Append(@, self.template_canon_to_display[base_canon])],
          result |-> MappingResult(self.template_canon_to_display[base_canon],
                                   "reused_created_category",
                                   FALSE, signals, task_text)]
    ELSE map_task_create(self, task_text, signals,
             create_category_name(task_text, signals, get_all_canonicals(self)))

\* map_task after the call of map_category, whose result is matched
map_task_after_rules(self, task_text, signals, matched, base_canon) ==
    IF Truthy(matched.category_display)
    THEN [self   |-> self,
          result |-> MappingResult(matched.category_display[1], matched.reason,
                                   FALSE, signals, task_text)]
    ELSE IF base_canon \in DOMAIN self.template_canon_to_display
    THEN [self   |-> self,
          result |-> MappingResult(self.template_canon_to_display[base_canon],
                                   "reused_created_category",
                                   FALSE, signals, task_text)]
    ELSE map_task_create(self, task_text, signals,
             create_category_name(task_text, signals, get_all_canonicals(self)))

\* map_task after the call of parse_signals
map_task_with_signals(self, task_text, signals) ==
    map_task_after_rules(self, task_text, signals,
        map_category(task_text, signals, self.template_canon_to_display),
        canonical(compute_base_category_name(task_text, signals)))

\* a faulty variant: map_task without the look-up of the base name, so a
\* task no rule matches always registers a new category
map_task_no_reuse(self, task_text) ==
    LET signals  == parse_signals(task_text)
        matched  == map_category(task_text, signals, self.template_canon_to_display)
        new_name == create_category_name(task_text, signals, get_all_canonicals(self))
    IN  IF Truthy(matched.category_display)
        THEN [self   |-> self,
              result |-> MappingResult(matched.category_display[1], matched.reason,
                                       FALSE, signals, task_text)]
        ELSE [self   |-> register_category(self, new_name, task_text, signals),
              result |-> MappingResult(new_name, "auto_created",
                                       TRUE, signals, task_text)]

\* CategoryMapper.map_task: the mapper after the call and the result
map_task(self, task_text) ==
    map_task_with_signals(self, task_text, parse_signals(task_text))

\* CategoryMapper.add_example_to_created_category: the loop stops at the
\* first created category with the canonical form of category
add_example_to_created_category(self, category, task_text) ==
    LET canon == canonical(category)
        cats  == self.created_categories
        hits  == {i \in 1..Len(cats) : canonical(cats[i].header) = canon}
    IN  IF hits = {} \/ Len(cats[Min(hits)].example_tasks) >= 3
        THEN self
        ELSE [self EXCEPT !.created_categories[Min(hits)].example_tasks =
                              Append(@, task_text)]

(***************************************************************************)
(* organize_headers                                                        *)
(***************************************************************************)
\* _strip_prefix
strip_prefix(h) ==
    LET h1 == IF StartsWith(h, Lit.INTERIOR_SP) THEN Strip(Slice(h, 10, Len(h)))
              ELSE IF StartsWith(h, Lit.EXTERIOR_SP) THEN Strip(Slice(h, 10, Len(h)))
              ELSE IF StartsWith(h, Lit.INT_SP) THEN Strip(Slice(h, 5, Len(h)))
              ELSE IF StartsWith(h, Lit.EXT_SP) THEN Strip(Slice(h, 5, Len(h)))
              ELSE h
    IN  LStripSet(h1, {"/", " ", "-", "&"})

\* h.upper().strip().endswith(' UA')
is_ua_header(h) == EndsWith(Strip(Upper(h)), Lit.SP_UA)
is_non_ua_header(h) == ~is_ua_header(h)

\* The loop over non_ua_headers for one UA header keeps best, the pair
\* <<best_match, best_score>> with best_match None or Some(header).

\* strategy 2: normalized substring
strategy2(base, base_norm, ua_norm, best) ==
    IF Contains(ua_norm, base_norm) /\ Len(base_norm) + 100 > best[2]
    THEN <<Some(base), Len(base_norm) + 100>>
    ELSE IF Contains(base_norm, ua_norm) /\ Len(ua_norm) + 100 > best[2]
    THEN <<Some(base), Len(ua_norm) + 100>>
    ELSE best

\* strategy 3: raw substring
strategy3(base, base_upper, ua_raw, best) ==
    IF Contains(ua_raw, base_upper) /\ Len(base_upper) > best[2] /\ best[2] < 100
    THEN <<Some(base), Len(base_upper)>>
    ELSE best

\* strategies 2 and 3 for one base header
score_base(base, base_upper, ua_raw, ua_norm, best) ==
    strategy3(base, base_upper, ua_raw,
              strategy2(base, strip_prefix(base_upper), ua_norm, best))

\* the loop from index k on; strategy 1 (exact normalized match) breaks
RECURSIVE best_base(_, _, _, _, _)
best_base(non_ua_headers, k, ua_raw, ua_norm, best) ==
    IF k > Len(non_ua_headers) THEN best[1]
    ELSE IF ua_norm = strip_prefix(Strip(Upper(non_ua_headers[k])))
    THEN Some(non_ua_headers[k])
    ELSE best_base(non_ua_headers, k + 1, ua_raw, ua_norm,
                   score_base(non_ua_headers[k], Strip(Upper(non_ua_headers[k])),
                              ua_raw, ua_norm, best))

\* ua_upper[:-3].strip()
ua_raw_of(ua_upper) == Strip(SubSeq(ua_upper, 1, Len(ua_upper) - 3))

\* "if best_match:" an empty header is no match
truthy_match(best_match) == IF Truthy(best_match) THEN best_match ELSE None

ua_base_of_raw(non_ua_headers, ua_raw) ==
    truthy_match(best_base(non_ua_headers, 1, ua_raw, strip_prefix(ua_raw),
                           <<None, 0>>))

\* ua_to_base.get(ua): the base the UA header is matched to, None without one
ua_base(non_ua_headers, ua) ==
    ua_base_of_raw(non_ua_headers, ua_raw_of(Strip(Upper(ua))))

\* the inner loop of the result building: the UA headers, from index j on,
\* that are not placed yet and matched to header
RECURSIVE place_partners(_, _, _, _, _)
place_partners(ua_headers, non_ua_headers, j, header, placed) ==
    IF j > Len(ua_headers) THEN [out |-> <<>>, placed |-> placed]
    ELSE IF ua_headers[j] \notin placed
            /\ ua_base(non_ua_headers, ua_headers[j]) = Some(header)
    THEN LET rest == place_partners(ua_headers, non_ua_headers, j + 1,
                                    header, placed \cup {ua_headers[j]})
         IN  [out |-> <<ua_headers[j]>> \o rest.out, placed |-> rest.placed]
    ELSE place_partners(ua_headers, non_ua_headers, j + 1, header, placed)

\* the outer loop: each non-UA header followed by its partners p.out, then
\* the UA headers that were never placed
RECURSIVE place_headers(_, _, _, _)
\* a faulty variant: the UA partners are put in front of their base header
place_after_partners_first(ua_headers, non_ua_headers, k, p) ==
    p.out \o <<non_ua_headers[k]>>
        \o place_headers(ua_headers, non_ua_headers, k + 1, p.placed)
place_after(ua_headers, non_ua_headers, k, p) ==
    <<non_ua_headers[k]>> \o p.out
        \o place_headers(ua_headers, non_ua_headers, k + 1, p.placed)
\* a faulty variant: the UA headers that were never placed are left out
place_headers_drops_unmatched(ua_headers, non_ua_headers, k, placed) ==
    IF k > Len(non_ua_headers)
    THEN <<>>
    ELSE place_after(ua_headers, non_ua_headers, k,
                     place_partners(ua_headers, non_ua_headers, 1,
                                    non_ua_headers[k], placed))
place_headers(ua_headers, non_ua_headers, k, placed) ==
    IF k > Len(non_ua_headers)
    THEN SelectSeq(ua_headers, LAMBDA ua : ua \notin placed)
    ELSE place_after(ua_headers, non_ua_headers, k,
                     place_partners(ua_headers, non_ua_headers, 1,
                                    non_ua_headers[k], placed))

organize_headers(headers) ==
    place_headers(SelectSeq(headers, is_ua_header),
                  SelectSeq(headers, is_non_ua_header), 1, {})

(***************************************************************************)
(* aggregator.py: clean_lot_number, combine_plan_elevation                 *)
(***************************************************************************)
\* a faulty variant: lot.lstrip('0') without the "or '0'"
clean_lot_number_all_zeros_lost(lot) ==
    IF lot = <<>> THEN <<>>
    ELSE LStripSet(RStripSet(lot, {"/", " "}), {"0"})

clean_lot_number(lot) ==
    IF lot = <<>> THEN <<>>
    ELSE LET l1 == RStripSet(lot, {"/", " "})
             l2 == LStripSet(l1, {"0"})
         IN  IF l2 = <<>> THEN <<"0">> ELSE l2

combine_plan_elevation(plan, elevation) ==
    LET p == Strip(plan)
        e == Strip(elevation)
    IN  IF elevation # <<>> /\ e # <<>> /\ ~EndsWith(p, e) THEN p \o e ELSE p

(***************************************************************************)
(* Caller-supplied template lists.                                        *)
(***************************************************************************)
TemplateLists == <<
    \* ['EXT PRIME', 'EXTERIOR', 'EXTERIOR UA', 'INTERIOR']
    <<<<"E","X","T"," ","P","R","I","M","E">>,
      <<"E","X","T","E","R","I","O","R">>,
      <<"E","X","T","E","R","I","O","R"," ","U","A">>,
      <<"I","N","T","E","R","I","O","R">>>>,
    \* ['Touch Up', 'TOUCH UP', 'EXTERIOR']
    <<<<"T","o","u","c","h"," ","U","p">>,
      <<"T","O","U","C","H"," ","U","P">>,
      <<"E","X","T","E","R","I","O","R">>>>
>>
\* what a caller may pass as template_headers: None or one of the lists
TemplateChoices == {None} \cup {Some(TemplateLists[i]) : i \in 1..Len(TemplateLists)}

(***************************************************************************)
(* aggregate_data.  A defaultdict is a function whose missing keys read as *)
(* the default; aggregated_data also keeps its keys in insertion order,    *)
(* the order in which a Python dict is iterated.                           *)
(***************************************************************************)
\* d.get(k, 0)
GetOr0(d, k) == IF k \in DOMAIN d THEN d[k] ELSE 0
\* d[k] += n on a defaultdict(int) or defaultdict(float)
AddTo(d, k, n) == [x \in DOMAIN d \cup {k} |-> IF x = k THEN GetOr0(d, k) + n ELSE d[x]]
\* x or ""
OrEmpty(o) == IF Truthy(o) THEN o[1] ELSE <<>>

RECURSIVE SumValues(_)
\* sum(d.values())
SumValues(d) ==
    IF DOMAIN d = {} THEN 0
    ELSE LET k == CHOOSE x \in DOMAIN d : TRUE
         IN  d[k] + SumValues([x \in DOMAIN d \ {k} |-> d[x]])

\* the local variables of aggregate_data before the loop
EmptyAgg ==
    [aggregated_data     |-> [keys |-> <<>>, val |-> <<>>],
     appearance_order    |-> <<>>,
     counts_per_category |-> <<>>,
     mapping_details     |-> <<>>,
     unmapped_tasks      |-> <<>>]

\* amount = row.total if row.total is not None else row.subtotal; None is 0.0
row_amount(row) ==
    IF row.total # None THEN row.total[1]
    ELSE IF row.subtotal # None THEN row.subtotal[1]
    ELSE 0

\* what the caller of a function that raised AttributeError gets, in place
\* of a value
AttributeError == <<"raises", "AttributeError">>

\* task_text = row.task_text_raw or row.task_text; reading an attribute the
\* row object does not have raises AttributeError
row_task_text(row) ==
    IF "task_text_raw" \notin DOMAIN row THEN AttributeError
    ELSE IF Truthy(row.task_text_raw) THEN row.task_text_raw
    ELSE row.task_text

row_group_key(row) ==
    <<clean_lot_number(OrEmpty(row.lot_block)),
      combine_plan_elevation(OrEmpty(row.plan), OrEmpty(row.elevation))>>

\* a faulty variant: aggregated_data[group_key][category] = amount
add_amount_overwrite(aggregated_data, group_key, category, amount) ==
    LET known == group_key \in DOMAIN aggregated_data.val
        cats  == IF known THEN aggregated_data.val[group_key] ELSE <<>>
    IN  [keys |-> IF known THEN aggregated_data.keys
                  ELSE Append(aggregated_data.keys, group_key),
         val  |-> [g \in DOMAIN aggregated_data.val \cup {group_key} |->
                      IF g = group_key
                      THEN [c \in DOMAIN cats \cup {category} |->
                               IF c = category THEN amount ELSE cats[c]]
                      ELSE aggregated_data.val[g]]]

\* aggregated_data[group_key][category] += amount
add_amount(aggregated_data, group_key, category, amount) ==
    LET known == group_key \in DOMAIN aggregated_data.val
        cats  == IF known THEN aggregated_data.val[group_key] ELSE <<>>
    IN  [keys |-> IF known THEN aggregated_data.keys
                  ELSE Append(aggregated_data.keys, group_key),
         val  |-> [g \in DOMAIN aggregated_data.val \cup {group_key} |->
                      IF g = group_key THEN AddTo(cats, category, amount)
                      ELSE aggregated_data.val[g]]]

\* One iteration of the loop over rows yields the mapper and the locals
\* after it.  aggregate_mapped is the part after the call of map_task, whose
\* outcome is m.
aggregate_mapped(agg, row, task_text, m, group_key) ==
    [self |-> IF m.result.is_new_category
              THEN add_example_to_created_category(m.self, m.result.category_display,
                                                   task_text)
              ELSE m.self,
     agg  |-> [agg EXCEPT
         !.counts_per_category = AddTo(@, m.result.category_display, 1),
         !.mapping_details = Append(@,
             [lot |-> row.lot_block, plan |-> row.plan,
              task_text |-> task_text, category |-> m.result.category_display,
              reason |-> m.result.reason,
              is_new_category |-> m.result.is_new_category,
              signals |-> m.result.signals]),
         !.appearance_order =
             IF group_key \in DOMAIN @ THEN @
             ELSE [g \in DOMAIN @ \cup {group_key} |->
                      IF g = group_key THEN Cardinality(DOMAIN @) ELSE @[g]],
         !.aggregated_data = add_amount(@, group_key, m.result.category_display,
                                        row_amount(row))]]

\* a faulty variant: no early "continue", a row without task text is
\* mapped and aggregated like any other
aggregate_text_no_skip(self, agg, row, task_text) ==
    aggregate_mapped(agg, row, OrEmpty(task_text),
                     map_task(self, OrEmpty(task_text)), row_group_key(row))

\* the row's task text is None, "" or Some(text)
aggregate_text(self, agg, row, task_text) ==
    IF ~Truthy(task_text)
    THEN [self |-> self,
          agg  |-> [agg EXCEPT
              !.counts_per_category = AddTo(@, Lit.UNMAPPED, 1),
              !.unmapped_tasks = Append(@, Lit.EMPTY_TASK)]]
    ELSE aggregate_mapped(agg, row, task_text[1], map_task(self, task_text[1]),
                          row_group_key(row))

\* one iteration of the loop: the mapper and the locals after it, and
\* whether the iteration raised (then nothing was changed)
aggregate_row(self, agg, row) ==
    IF row_task_text(row) = AttributeError
    THEN [self |-> self, agg |-> agg, raised |-> TRUE]
    ELSE [raised |-> FALSE] @@ aggregate_text(self, agg, row, row_task_text(row))

suspicious_threshold == 100000

\* the summary row of one group: row_dict, a dict from the keys 'lot_block'
\* and 'plan', the final headers and 'total' to values.  The assignments
\* are made in this order, so a header named like a fixed key replaces the
\* lot or the plan, and the total replaces the value of a header 'total'.
summary_row(group_key, categories, final_headers) ==
    LET headers == {final_headers[i] : i \in 1..Len(final_headers)}
    IN  [k \in {Lit.lot_block, Lit.plan, Lit.total} \cup headers |->
            IF k = Lit.total THEN SumValues(categories)
            ELSE IF k \in headers THEN GetOr0(categories, k)
            ELSE IF k = Lit.lot_block THEN group_key[1]
            ELSE group_key[2]]

\* list.sort(key=...): stable, by ascending key; key[i] is the key of s[i]
SortByKey(s, key) ==
    LET before(i, j) == key[i] < key[j] \/ (key[i] = key[j] /\ i < j)
        rank(i) == Cardinality({j \in 1..Len(s) : before(j, i)}) + 1
    IN  [k \in 1..Len(s) |-> s[CHOOSE i \in 1..Len(s) : rank(i) = k]]

\* a faulty variant: a total of exactly the threshold is flagged as well
suspicious_entry_at_threshold(group_key, total) ==
    IF total < 0
    THEN <<[lot_block |-> group_key[1], plan |-> group_key[2], total |-> total,
            reason |-> "Negative total"]>>
    ELSE IF total >= suspicious_threshold
    THEN <<[lot_block |-> group_key[1], plan |-> group_key[2], total |-> total,
            reason |-> "Unusually high total (> $100k)"]>>
    ELSE <<>>

\* the suspicious_totals entry of a group, if any
suspicious_entry(group_key, total) ==
    IF total < 0
    THEN <<[lot_block |-> group_key[1], plan |-> group_key[2], total |-> total,
            reason |-> "Negative total"]>>
    ELSE IF total > suspicious_threshold
    THEN <<[lot_block |-> group_key[1], plan |-> group_key[2], total |-> total,
            reason |-> "Unusually high total (> $100k)"]>>
    ELSE <<>>

RECURSIVE suspicious_from(_, _)
suspicious_from(aggregated_data, i) ==
    IF i > Len(aggregated_data.keys) THEN <<>>
    ELSE LET g == aggregated_data.keys[i]
         IN  suspicious_entry(g, SumValues(aggregated_data.val[g]))
                 \o suspicious_from(aggregated_data, i + 1)

\* active_headers: the headers that received at least one row
active_headers(self, agg) ==
    SelectSeq(self.category_headers,
              LAMBDA h : GetOr0(agg.counts_per_category, h) > 0)

\* summary_rows before the sort: one row_dict per group, in the order of
\* aggregated_data.items()
unsorted_rows(data, final_headers) ==
    [i \in 1..Len(data.keys) |->
        summary_row(data.keys[i], data.val[data.keys[i]], final_headers)]

\* summary_rows.sort(key=lambda x: appearance_order.get(
\*     (x["lot_block"], x["plan"]), float('inf'))): a row whose lot or plan
\* was replaced by a category value (a number, which equals no string) is
\* no key of appearance_order and sorts after the others; inf stands for
\* float('inf'), above every position
sort_summary_rows(summary_rows, appearance_order, final_headers) ==
    LET headers == {final_headers[i] : i \in 1..Len(final_headers)}
        replaced == Lit.lot_block \in headers \/ Lit.plan \in headers
        inf == Cardinality(DOMAIN appearance_order)
    IN  SortByKey(summary_rows,
              [i \in 1..Len(summary_rows) |->
                  IF replaced THEN inf
                  ELSE appearance_order[<<summary_rows[i][Lit.lot_block],
                                          summary_rows[i][Lit.plan]>>]])

\* Counter(unmapped_tasks).most_common(30): the list only ever holds
\* "(empty task)", so there is at most one entry
unmapped_examples(unmapped_tasks) ==
    IF unmapped_tasks = <<>> THEN <<>>
    ELSE <<[task_text |-> unmapped_tasks[1], count |-> Len(unmapped_tasks)]>>

\* the entries appended for the created categories
created_examples(created, counts) ==
    [i \in 1..Len(created) |->
        [task_text |-> Lit.AUTO_CREATED \o created[i].header,
         count     |-> GetOr0(counts, created[i].header),
         examples  |-> created[i].example_tasks]]

\* the return value, for the final headers
build_result(self, agg, qa_meta, final_headers) ==
    [summary_rows  |-> sort_summary_rows(
                           unsorted_rows(agg.aggregated_data, final_headers),
                           agg.appearance_order, final_headers),
     final_headers |-> final_headers,
     qa_report     |->
         [counts_per_bucket |-> agg.counts_per_category,
          unmapped_examples |->
              unmapped_examples(agg.unmapped_tasks)
                  \o created_examples(self.created_categories, agg.counts_per_category),
          suspicious_totals |-> suspicious_from(agg.aggregated_data, 1),
          parse_meta        |-> qa_meta]]

\* the part of aggregate_data after the loop: what the call returns
aggregate_result(self, agg, qa_meta) ==
    build_result(self, agg, qa_meta, organize_headers(active_headers(self, agg)))

\* "for row in rows" from the i-th row on; st holds the mapper and the
\* locals; the loop ends with the list or with the iteration that raised
RECURSIVE aggregate_rows(_, _, _)
aggregate_rows(st, row_list, i) ==
    IF i > Len(row_list) \/ st.raised THEN st
    ELSE aggregate_rows(aggregate_row(st.self, st.agg, row_list[i]), row_list, i + 1)

\* what the call gives its caller when the loop has ended in st: the
\* exception, or the result
aggregate_outcome(st, qa_meta) ==
    IF st.raised THEN AttributeError
    ELSE aggregate_result(st.self, st.agg, qa_meta)

\* aggregate_data as a function of its arguments: a mapper of its own is
\* constructed, the rows are consumed in order, the result is built
aggregate_data(row_list, qa_meta, template_headers) ==
    aggregate_outcome(aggregate_rows([self |-> CategoryMapper(template_headers),
                                      agg  |-> EmptyAgg, raised |-> FALSE],
                                     row_list, 1),
                      qa_meta)

(***************************************************************************)
(* Parsed rows handed to aggregate_data.  Optional fields are None or      *)
(* Some(value); amounts are whole numbers.                                 *)
(***************************************************************************)
\* schemas.ParsedRow: the nine declared fields.  The model declares no
\* task_text_raw, and a keyword that is not declared is dropped, so the
\* object has no such attribute.
ParsedRow(lot_block, plan, elevation, swing, task_start_date, task_text, subtotal, tax, total) ==
    [lot_block |-> lot_block, plan |-> plan, elevation |-> elevation,
     swing |-> swing, task_start_date |-> task_start_date,
     task_text |-> task_text, subtotal |-> subtotal, tax |-> tax,
     total |-> total]

\* a row object of another type, which carries the attribute task_text_raw
\* next to the fields of a ParsedRow (swing, start date and tax unset)
RawRow(lot_block, plan, elevation, task_text_raw, task_text, subtotal, total) ==
    [task_text_raw |-> task_text_raw]
        @@ ParsedRow(lot_block, plan, elevation, None, None, task_text,
                     subtotal, None, total)

Lot0044 == <<"0","0","4","4","/">>
Lot44 == <<"4","4">>
Lot101 == <<"1","0","1">>
Lot7 == <<"7">>
KitchenCabinets == <<"K","i","t","c","h","e","n"," ","C","a","b","i","n","e","t","s">>

RowPool ==
    { \* two rows of house (44, 2B) that both land in TOUCH UP
      RawRow(Some(Lot0044), Some(<<"2">>), Some(<<"B">>),
                Some(TaskTexts[4]), Some(TaskTexts[4]), None, Some(100)),
      RawRow(Some(Lot44), Some(<<"2","B">>), Some(<<"B">>),
                Some(TaskTexts[3]), Some(TaskTexts[3]), None, Some(200)),
      \* no total: the subtotal is the amount
      RawRow(Some(Lot101), Some(<<"1">>), None,
                Some(TaskTexts[5]), Some(TaskTexts[5]), Some(50), None),
      \* empty task text with an amount
      RawRow(Some(Lot101), Some(<<"1">>), Some(<<>>),
                Some(<<>>), Some(<<>>), None, Some(75)),
      \* missing task text with an amount
      RawRow(Some(Lot7), Some(<<"3">>), Some(<<"A">>),
                None, None, None, Some(30)),
      \* a negative total
      RawRow(Some(Lot7), Some(<<"3">>), Some(<<"A">>),
                Some(TaskTexts[12]), Some(TaskTexts[12]), None, Some(0 - 20)),
      \* neither total nor subtotal
      RawRow(Some(Lot101), Some(<<"1">>), None,
                Some(TaskTexts[11]), Some(TaskTexts[11]), None, None),
      \* a total of exactly the threshold
      RawRow(Some(Lot101), Some(<<"1">>), None,
                Some(TaskTexts[5]), Some(TaskTexts[5]), None, Some(100000)),
      \* raw text differs from the cleaned text; a total above the threshold
      RawRow(Some(Lot0044), Some(<<"2">>), Some(<<"B">>),
                Some(TaskTexts[10]), Some(KitchenCabinets), Some(5), Some(100001)),
      \* the task text 'total', which a template column may be named like
      RawRow(Some(Lot44), Some(<<"2">>), Some(<<"B">>),
                Some(Lit.total), Some(Lit.total), None, Some(40)),
      \* rows as the parser builds them, schemas.ParsedRow objects: with a
      \* task text and a total, and without a task text
      ParsedRow(Some(Lot44), Some(<<"2">>), Some(<<"B">>), None, None,
                Some(TaskTexts[4]), None, None, Some(100)),
      ParsedRow(Some(Lot7), Some(<<"3">>), Some(<<"A">>), None, None,
                None, None, None, Some(30)) }

\* the qa_meta argument, handed through to the report untouched
QaMeta == "qa_meta"

(***************************************************************************)
(* State.  template is the constructor argument; mapper the CategoryMapper *)
(* object; calls the history of map_task calls made directly on it; rows   *)
(* the rows aggregate_data has consumed; agg its local variables; pc its   *)
(* position; out what it returned; fcall the last call of a module-level   *)
(* function; job the job stores and the locals of process_lennar_file.     *)
(***************************************************************************)
VARIABLES template, mapper, calls, rows, agg, pc, out, fcall, job
vars == <<template, mapper, calls, rows, agg, pc, out, fcall, job>>

\* number of map_task calls explored
MaxCalls == 3
\* number of rows in the list given to aggregate_data
MaxRows == 3
\* number of examples added by calls of add_example_to_created_category
MaxAddedExamples == 1

\* A CategoryMapper is constructed and map_task is called on it.
Init ==
    /\ template \in TemplateChoices
    /\ mapper = CategoryMapper(template)
    /\ calls = <<>>
    /\ rows = <<>>
    /\ agg = EmptyAgg
    /\ pc = "mapper"
    /\ out = None
    /\ fcall = None
    /\ job = None

MapTask(task_text) ==
    /\ pc = "mapper"
    /\ Len(calls) < MaxCalls
    /\ LET r == map_task(mapper, task_text)
       IN  /\ mapper' = r.self
           /\ calls' = Append(calls, [task_text |-> task_text,
                                      before    |-> mapper,
                                      after     |-> r.self,
                                      result    |-> r.result])
    /\ UNCHANGED <<template, rows, agg, pc, out, fcall, job>>

\* add_example_to_created_category is called on the mapper; the calls
\* that add an example are counted by the examples the created categories
\* hold beyond the one of their creation
AddExample(category, task_text) ==
    /\ pc = "mapper"
    /\ Cardinality(UNION {{<<i, j>> : j \in 2..Len(mapper.created_categories[i].example_tasks)} :
                              i \in 1..Len(mapper.created_categories)}) < MaxAddedExamples
    /\ mapper' = add_example_to_created_category(mapper, category, task_text)
    /\ UNCHANGED <<template, calls, rows, agg, pc, out, fcall, job>>

Next ==
    \/ \E task_text \in TaskPool : MapTask(task_text)
    \/ \E category \in {mapper.category_headers[i] : i \in 1..Len(mapper.category_headers)} :
           AddExample(category, TaskTexts[4])

Spec == Init /\ [][Next]_vars

\* aggregate_data(rows, qa_meta, template_headers) is called: the mapper is
\* constructed and the loop over the rows begins.
\* what a caller may pass to aggregate_data as template_headers: also a
\* list that names a column like the bucket of the rows without task text,
\* ['EXTERIOR', 'UNMAPPED'], and one that names a column like the fixed key
\* 'total' of a summary row, ['total', 'EXTERIOR']
AggTemplateChoices ==
    TemplateChoices \cup {Some(<<Lit.EXTERIOR, Lit.UNMAPPED>>),
                          Some(<<Lit.total, Lit.EXTERIOR>>)}

AggInit ==
    /\ template \in AggTemplateChoices
    /\ mapper = CategoryMapper(template)
    /\ calls = <<>>
    /\ rows = <<>>
    /\ agg = EmptyAgg
    /\ pc = "loop"
    /\ out = None
    /\ fcall = None
    /\ job = None

\* one iteration of "for row in rows"; when it raises, the call of
\* aggregate_data ends without a return value
ProcessRow(row) ==
    /\ pc = "loop"
    /\ Len(rows) < MaxRows
    /\ LET r == aggregate_row(mapper, agg, row)
       IN  /\ mapper' = r.self
           /\ agg' = r.agg
           /\ pc' = IF r.raised THEN "raised" ELSE "loop"
    /\ rows' = Append(rows, row)
    /\ UNCHANGED <<template, calls, out, fcall, job>>

\* the list is exhausted: headers, summary rows and the QA report are built
Finish ==
    /\ pc = "loop"
    /\ pc' = "done"
    /\ out' = Some(aggregate_result(mapper, agg, QaMeta))
    /\ UNCHANGED <<template, mapper, calls, rows, agg, fcall, job>>

AggNext == (\E row \in RowPool : ProcessRow(row)) \/ Finish

SpecAgg == AggInit /\ [][AggNext]_vars

\* A caller makes one call of aggregate_data after the other.  calls holds,
\* for every call that has returned and was followed by another, whether it
\* auto-created a category.
\* number of calls of aggregate_data a caller makes in a row
MaxAggCalls == 2

\* a faulty variant: the mapper of the call before is used again
CallAgain_keeps_mapper(template_headers) ==
    /\ pc \in {"done", "raised"}
    /\ Len(calls) < MaxAggCalls - 1
    /\ calls' = Append(calls, mapper.created_categories # <<>>)
    /\ template' = template_headers
    /\ rows' = <<>>
    /\ agg' = EmptyAgg
    /\ pc' = "loop"
    /\ out' = None
    /\ UNCHANGED <<mapper, fcall, job>>

\* the call has returned or raised and aggregate_data is called again, with
\* template_headers: the mapper and the locals are those of the new call
CallAgain(template_headers) ==
    /\ pc \in {"done", "raised"}
    /\ Len(calls) < MaxAggCalls - 1
    /\ calls' = Append(calls, mapper.created_categories # <<>>)
    /\ template' = template_headers
    /\ mapper' = CategoryMapper(template_headers)
    /\ rows' = <<>>
    /\ agg' = EmptyAgg
    /\ pc' = "loop"
    /\ out' = None
    /\ UNCHANGED <<fcall, job>>

SessionNext ==
    \/ \E row \in RowPool : ProcessRow(row)
    \/ Finish
    \/ \E template_headers \in AggTemplateChoices : CallAgain(template_headers)

SpecSession == AggInit /\ [][SessionNext]_vars

(***************************************************************************)
(* The legacy classifier (classifier.py).  The configuration file is not   *)
(* part of the sources, so load_config falls back to get_default_config:   *)
(* the keyword lists below, and the Q4 REVERSAL rule disabled.  A row      *)
(* carries no task_start_date, so raw_date and date_month stay None.       *)
(***************************************************************************)
\* classifier.normalize_task_text: upper case, the separators - _ / and the
\* long dash to blanks, runs of white space to one blank, trimmed
classifier_normalize_task_text(text) ==
    IF text = <<>> THEN <<>>
    ELSE LET u == Upper(text)
         IN  Strip(CollapseWs([i \in 1..Len(u) |->
                       IF u[i] \in SeparatorChars THEN " " ELSE u[i]]))

\* classifier.parse_signals from "config = load_config()" on, for the
\* non-empty normalized text
classifier_signals_of(normalized) ==
    LET config_prime_keywords == <<
            <<"P","R","I","M","E">>,
            <<"P","R","I","M","E","R">>,
            <<"U","N","D","E","R","C","O","A","T">>,
            <<"S","E","A","L">>,
            <<"S","E","A","L","E","R">>,
            <<"S","A","N","D">>,
            <<"S","A","N","D","I","N","G">>,
            <<"B","L","O","C","K">>,
            <<"B","L","O","C","K","O","U","T">>,
            <<"C","A","U","L","K">>,
            <<"P","A","T","C","H">>,
            <<"P","R","E","P">>,
            <<"F","A","S","C","I","A">>>>
        config_touchup_keywords == <<
            <<"T","O","U","C","H"," ","U","P">>,
            <<"T","O","U","C","H","U","P">>,
            <<"T","O","U","C","H","-","U","P">>,
            <<"P","U","N","C","H">>,
            <<"F","I","N","A","L"," ","T","O","U","C","H">>,
            <<"A","F","T","E","R"," ","C","A","R","P","E","T">>>>
        config_rollwalls_keywords == <<
            <<"R","O","L","L"," ","W","A","L","L">>,
            <<"R","O","L","L"," ","W","A","L","L","S">>,
            <<"R","O","L","L","E","D"," ","W","A","L","L">>,
            <<"R","O","L","L","E","D"," ","W","A","L","L","S">>,
            <<"R","O","L","L","I","N","G"," ","W","A","L","L">>,
            <<"R","O","L","L","I","N","G"," ","W","A","L","L","S">>,
            <<"W","A","L","L"," ","R","O","L","L">>,
            <<"W","A","L","L","S"," ","R","O","L","L">>,
            <<"C","E","I","L","I","N","G">>,
            <<"C","E","I","L","I","N","G","S">>>>
        ext1 == Contains(normalized, Lit.EXT_MARK)
        ext2 == HasWord(normalized, Lit.EXT) /\ ~HasWord(normalized, Lit.EXTERIOR)
        ext3 == HasWord(normalized, Lit.EXTERIOR)
        int1 == Contains(normalized, Lit.INT_MARK)
        int2 == HasWord(normalized, Lit.INT) /\ ~HasWord(normalized, Lit.INTERIOR)
        int3 == HasWord(normalized, Lit.INTERIOR)
        is_exterior == ext1 \/ ext2 \/ ext3
        is_interior == int1 \/ int2 \/ int3
        ua1 == Contains(normalized, Lit.UA_TAG)
        ua2 == HasWord(normalized, Lit.UA)
        op  == Contains(normalized, Lit.OP_TAG)
        ls  == Contains(normalized, Lit.LS_TAG)
        \* re.search(r'\((\d{5,})\)', normalized): the leftmost match
        codes == {i \in 1..Len(normalized) :
                     /\ normalized[i] = "("
                     /\ RunLen(normalized, i + 1, Digits) >= 5
                     /\ MatchAt(normalized, i + 1 + RunLen(normalized, i + 1, Digits), <<")">>)}
        job_code == IF codes = {} THEN None
                    ELSE Some(Slice(normalized, Min(codes) + 1,
                                    Min(codes) + RunLen(normalized, Min(codes) + 1, Digits)))
        pr == FirstKw([i \in 1..Len(config_prime_keywords) |-> HasWord(normalized, config_prime_keywords[i])])
        tu == FirstKw([i \in 1..Len(config_touchup_keywords) |-> Contains(normalized, config_touchup_keywords[i])])
        \* the loop over config_rollwalls_keywords stops at the first keyword that is
        \* in the text and passes one of the three tests
        rw == FirstKw([i \in 1..Len(config_rollwalls_keywords) |->
                  /\ Contains(normalized, config_rollwalls_keywords[i])
                  /\ \/ Contains(config_rollwalls_keywords[i], Lit.ROLL)
                        /\ Contains(config_rollwalls_keywords[i], Lit.WALL)
                     \/ Contains(config_rollwalls_keywords[i], Lit.CEILING)
                     \/ is_interior \/ ~is_exterior])
        \* re.search(r'ROLL\w*\s+\w*\s*WALL', normalized)
        near == \E i \in 1..Len(normalized) :
                    /\ MatchAt(normalized, i, Lit.ROLL)
                    /\ LET w  == RunLen(normalized, i + 4, WordChars)
                           sp == RunLen(normalized, i + 4 + w, WhiteSpace)
                           w2 == RunLen(normalized, i + 4 + w + sp, WordChars)
                           s2 == RunLen(normalized, i + 4 + w + sp + w2, WhiteSpace)
                       IN  /\ sp >= 1
                           /\ \/ \E m \in 0..w2 : MatchAt(normalized, i + 4 + w + sp + m, Lit.WALL)
                              \/ MatchAt(normalized, i + 4 + w + sp + w2 + s2, Lit.WALL)
    IN  [is_exterior |-> is_exterior,
         is_interior |-> is_interior,
         is_ua |-> ua1 \/ ua2, is_op |-> op, is_ls |-> ls,
         has_job_code |-> job_code # None,
         job_code |-> job_code,
         keyword_prime |-> pr > 0,
         keyword_touchup |-> tu > 0,
         keyword_rollwalls |-> rw > 0 \/ near,
         raw_date |-> None,
         date_month |-> None,
         matched_patterns |->
                (IF ext1 THEN <<<<"(","E","X","T",")"," ","m","a","r","k","e","r">>>>
                 ELSE IF ext2 THEN <<<<"E","X","T"," ","t","o","k","e","n">>>>
                 ELSE IF ext3 THEN <<<<"E","X","T","E","R","I","O","R"," ","k","e","y","w","o","r","d">>>> ELSE <<>>)
             \o (IF int1 THEN <<<<"(","I","N","T",")"," ","m","a","r","k","e","r">>>>
                 ELSE IF int2 THEN <<<<"I","N","T"," ","t","o","k","e","n">>>>
                 ELSE IF int3 THEN <<<<"I","N","T","E","R","I","O","R"," ","k","e","y","w","o","r","d">>>> ELSE <<>>)
             \o (IF ua1 THEN <<<<"[","U","A","]"," ","m","a","r","k","e","r">>>>
                 ELSE IF ua2 THEN <<<<"U","A"," ","t","o","k","e","n">>>> ELSE <<>>)
             \o (IF op THEN <<<<"[","O","P","]"," ","m","a","r","k","e","r">>>> ELSE <<>>)
             \o (IF ls THEN <<<<"[","L","S","]"," ","m","a","r","k","e","r">>>> ELSE <<>>)
             \o (IF job_code # None THEN <<<<"j","o","b","_","c","o","d","e",":">> \o job_code[1]>> ELSE <<>>)
             \o (IF pr > 0 THEN <<<<"p","r","i","m","e","_","k","e","y","w","o","r","d",":">> \o config_prime_keywords[pr]>> ELSE <<>>)
             \o (IF tu > 0 THEN <<<<"t","o","u","c","h","u","p","_","k","e","y","w","o","r","d",":">> \o config_touchup_keywords[tu]>> ELSE <<>>)
             \o (IF rw > 0 THEN <<<<"r","o","l","l","w","a","l","l","s","_","k","e","y","w","o","r","d",":">> \o config_rollwalls_keywords[rw]>>
                 ELSE IF near THEN <<<<"r","o","l","l","_","n","e","a","r","_","w","a","l","l">>>> ELSE <<>>)]

\* the TaskSignals() of the classifier, as constructed
classifier_TaskSignals ==
    [is_exterior |-> FALSE, is_interior |-> FALSE, is_ua |-> FALSE,
     is_op |-> FALSE, is_ls |-> FALSE, has_job_code |-> FALSE, job_code |-> None,
     keyword_prime |-> FALSE, keyword_touchup |-> FALSE, keyword_rollwalls |-> FALSE,
     raw_date |-> None, date_month |-> None, matched_patterns |-> <<>>]

\* classifier.parse_signals(task), without a date
classifier_parse_signals(task) ==
    IF classifier_normalize_task_text(task) = <<>> THEN classifier_TaskSignals
    ELSE classifier_signals_of(classifier_normalize_task_text(task))

\* classify_task: the rules B to H in their order; rule A needs the
\* q4_reversal configuration to be enabled, which it is not
classify_task(signals, normalized_text, original_text) ==
    LET make_result(category, rule, debug_info) ==
            [category |-> category, rule_fired |-> rule, signals |-> signals,
             normalized_text |-> normalized_text, original_text |-> original_text,
             debug_info |-> debug_info]
    IN  IF signals.is_exterior /\ signals.keyword_prime
        THEN make_result(Lit.EXT_PRIME, "rule_b_ext_prime", <<>>)
        ELSE IF signals.is_exterior /\ signals.is_ua
        THEN make_result(Lit.EXTERIOR_UA, "rule_c_exterior_ua", <<>>)
        ELSE IF signals.is_exterior
        THEN make_result(Lit.EXTERIOR, "rule_d_exterior", <<>>)
        ELSE IF signals.keyword_touchup
        THEN make_result(Lit.TOUCH_UP, "rule_e_touch_up", <<>>)
        ELSE IF (signals.is_interior \/ ~signals.is_exterior) /\ signals.keyword_rollwalls
        THEN make_result(Lit.ROLL_WALLS_FINAL, "rule_f_roll_walls_final", <<>>)
        ELSE IF signals.is_interior
        THEN make_result(Lit.INTERIOR, "rule_g_interior", <<>>)
        ELSE make_result(Lit.UNMAPPED, "rule_h_unmapped",
                 [unmapped_reason |->
                     IF ~signals.is_exterior /\ ~signals.is_interior
                     THEN "no_location_marker" ELSE "no_matching_rule"])

\* classify_row(row): the category of the row; task_text is the raw text
\* when there is one, else the cleaned text.  On a row without the
\* attribute task_text_raw the first or the second read of it raises.
classify_row(row) ==
    LET classify(task_text) ==
            classify_task(classifier_parse_signals(task_text),
                          classifier_normalize_task_text(task_text), task_text)
    IN  IF "task_text_raw" \notin DOMAIN row THEN AttributeError
        ELSE IF ~Truthy(row.task_text) /\ ~Truthy(row.task_text_raw) THEN Lit.UNMAPPED
        ELSE classify(IF Truthy(row.task_text_raw) THEN row.task_text_raw[1]
                      ELSE row.task_text[1]).category

\* The module-level functions are called on their own.  fcall holds the
\* last call: the function, its arguments and what it returned.
FnInit ==
    /\ template = None
    /\ mapper = CategoryMapper(None)
    /\ calls = <<>>
    /\ rows = <<>>
    /\ agg = EmptyAgg
    /\ pc = "call"
    /\ out = None
    /\ fcall = None
    /\ job = None

\* the record of a call: the function, its arguments and what it returned
Call(fn, args, ret) == [fn |-> fn, args |-> args, ret |-> ret]

\* longest lot identifier explored
MaxLotLen == 5
LotChars == {"0", "4", "/", " "}
\* the lot identifiers: every string over LotChars up to the length bound
LotPool == UNION {[1..n -> LotChars] : n \in 0..MaxLotLen}

CallCleanLotNumber(lot) ==
    /\ pc = "call"
    /\ pc' = "returned"
    /\ fcall' = Some(Call("clean_lot_number", <<lot>>, clean_lot_number(lot)))
    /\ UNCHANGED <<template, mapper, calls, rows, agg, out, job>>

\* a template with some non-UA and some UA entries of the keyword rules:
\* ['BASE SHOE', 'TOUCH UP', 'TOUCH UP UA', 'UNDERCOAT UA', 'EXT PRIME UA',
\*  'EXTERIOR', 'INTERIOR UA', 'INTERIOR']
MixedTemplate == <<Lit.BASE_SHOE, Lit.TOUCH_UP, Lit.TOUCH_UP_UA, Lit.UNDERCOAT_UA,
                   Lit.EXT_PRIME_UA, Lit.EXTERIOR, Lit.INTERIOR_UA, Lit.INTERIOR>>
\* the canonical-to-display maps map_category is called with
TemplateMaps ==
    {CanonToDisplay(<<>>), CanonToDisplay(default_categories), CanonToDisplay(MixedTemplate)}
        \cup {CanonToDisplay(TemplateLists[i]) : i \in 1..Len(TemplateLists)}
\* the TaskSignals map_category is called with: every combination of the
\* flags its rules read
SignalPool ==
    [is_ext : BOOLEAN, is_int : BOOLEAN, is_ua : BOOLEAN,
     is_op : {FALSE}, is_ls : {FALSE},
     keyword_undercoat : BOOLEAN, keyword_prime : BOOLEAN,
     keyword_touchup : BOOLEAN, keyword_rollwalls : BOOLEAN,
     keyword_baseshoe : BOOLEAN, matched_keywords : {<<>>}]

CallMapCategory(task_text, signals, tmpl) ==
    /\ pc = "call"
    /\ pc' = "returned"
    /\ fcall' = Some(Call("map_category", <<task_text, signals, tmpl>>,
                          map_category(task_text, signals, tmpl)))
    /\ UNCHANGED <<template, mapper, calls, rows, agg, out, job>>

\* task texts for the name synthesis, besides those of TaskPool
SynthTexts == {
    \* 'Overhang Fascia Gutters Downspouts UA'
    <<"O","v","e","r","h","a","n","g"," ","F","a","s","c","i","a"," ","G","u","t","t","e","r","s"," ","D","o","w","n","s","p","o","u","t","s"," ","U","A">>,
    \* 'Painting - Intake Vents (EXT)'
    <<"P","a","i","n","t","i","n","g"," ","-"," ","I","n","t","a","k","e"," ","V","e","n","t","s"," ","(","E","X","T",")">>,
    \* 'Extension cord (INT)'
    <<"E","x","t","e","n","s","i","o","n"," ","c","o","r","d"," ","(","I","N","T",")">> }
\* the TaskSignals the name synthesis is called with: every combination of
\* the three flags it reads
NameSignals ==
    {signals \in SignalPool :
        /\ ~signals.keyword_undercoat /\ ~signals.keyword_prime
        /\ ~signals.keyword_touchup /\ ~signals.keyword_rollwalls
        /\ ~signals.keyword_baseshoe}

CallComputeBaseCategoryName(task_text, signals) ==
    /\ pc = "call"
    /\ pc' = "returned"
    /\ fcall' = Some(Call("compute_base_category_name", <<task_text, signals>>,
                          compute_base_category_name(task_text, signals)))
    /\ UNCHANGED <<template, mapper, calls, rows, agg, out, job>>

\* pieces of task text that carry, or only look like, location markers:
\* '(EXT)', 'ext', 'Exterior', '(int)', 'INT', 'interior', 'Text', 'Paint',
\* 'int_ext', 'Ext.'
SignalPieces == {
    <<"(","E","X","T",")">>,
    <<"e","x","t">>,
    <<"E","x","t","e","r","i","o","r">>,
    <<"(","i","n","t",")">>,
    <<"I","N","T">>,
    <<"i","n","t","e","r","i","o","r">>,
    <<"T","e","x","t">>,
    <<"P","a","i","n","t">>,
    <<"i","n","t","_","e","x","t">>,
    <<"E","x","t",".">>,
    \* U+00E9 'ext' and 'int' U+00DF: a letter outside a-z next to the word
    <<"<U+00E9>","e","x","t">>,
    <<"i","n","t","<U+00DF>">> }
\* the texts parse_signals is called with: no text, one piece, or two pieces
\* put together with or without a blank between them
SignalTexts ==
    {<<>>} \cup SignalPieces
           \cup {a \o j \o b : a \in SignalPieces, j \in {<<>>, <<" ">>}, b \in SignalPieces}

CallParseSignals(task_text) ==
    /\ pc = "call"
    /\ pc' = "returned"
    /\ fcall' = Some(Call("parse_signals", <<task_text>>, parse_signals(task_text)))
    /\ UNCHANGED <<template, mapper, calls, rows, agg, out, job>>

\* the task texts of the rows given to classify_row: one of
\* 'Painting - Exterior / ', 'Painting - Interior / ', 'Painting - ',
\* then one of 'Prep & Enamel', 'Enamel', 'Touch Up',
\* then one of ' (437205) (INT) [LS]', ' (437225) (EXT)', ' [UA]'
\* the rows: the text is the raw text, the cleaned text, both or neither,
\* and the schemas.ParsedRow objects the repository's tests build
ClassifierRows ==
    LET texts ==
            {a \o b \o c :
                a \in {
                <<"P","a","i","n","t","i","n","g"," ","-"," ","E","x","t","e","r","i","o","r"," ","/"," ">>,
                <<"P","a","i","n","t","i","n","g"," ","-"," ","I","n","t","e","r","i","o","r"," ","/"," ">>,
                <<"P","a","i","n","t","i","n","g"," ","-"," ">> },
                b \in {
                <<"P","r","e","p"," ","&"," ","E","n","a","m","e","l">>,
                <<"E","n","a","m","e","l">>,
                <<"T","o","u","c","h"," ","U","p">> },
                c \in {
                <<" ","(","4","3","7","2","0","5",")"," ","(","I","N","T",")"," ","[","L","S","]">>,
                <<" ","(","4","3","7","2","2","5",")"," ","(","E","X","T",")">>,
                <<" ","[","U","A","]">> }}
    IN  {RawRow(None, None, None, raw, text, None, None) :
            raw \in {None, Some(<<>>)}, text \in {None, Some(<<>>)}}
        \cup {RawRow(None, None, None, Some(t), text, None, None) :
                  t \in texts, text \in {None, Some(<<"x">>)}}
        \cup {RawRow(None, None, None, raw, Some(t), None, None) :
                  t \in texts, raw \in {None, Some(<<>>)}}
        \cup {ParsedRow(None, None, None, None, None, text, None, None, None) :
                  text \in {None} \cup {Some(t) : t \in texts}}

CallClassifyRow(row) ==
    /\ pc = "call"
    /\ pc' = "returned"
    /\ fcall' = Some(Call("classify_row", <<row>>, classify_row(row)))
    /\ UNCHANGED <<template, mapper, calls, rows, agg, out, job>>

\* longest header list given to organize_headers
MaxHeaders == 4
\* the headers the lists are made of: 'EXTERIOR', 'EXTERIOR UA', 'INT DOORS',
\* 'DOORS UA', 'GARAGE DOOR UA', 'TOUCH UP', 'EXT DOORS', 'EXT DOORS UA'
HeaderPool == {Lit.EXTERIOR, Lit.EXTERIOR_UA, <<"I","N","T"," ","D","O","O","R","S">>, <<"D","O","O","R","S"," ","U","A">>, <<"G","A","R","A","G","E"," ","D","O","O","R"," ","U","A">>, Lit.TOUCH_UP, <<"E","X","T"," ","D","O","O","R","S">>, <<"E","X","T"," ","D","O","O","R","S"," ","U","A">>}
HeaderLists == UNION {[1..n -> HeaderPool] : n \in 0..MaxHeaders}

CallOrganizeHeaders(headers) ==
    /\ pc = "call"
    /\ pc' = "returned"
    /\ fcall' = Some(Call("organize_headers", <<headers>>, organize_headers(headers)))
    /\ UNCHANGED <<template, mapper, calls, rows, agg, out, job>>

FnNext ==
    \/ \E lot \in LotPool : CallCleanLotNumber(lot)
    \/ \E task_text \in TaskPool \cup SynthTexts,
          signals \in NameSignals \cup {parse_signals(t) : t \in SynthTexts} :
           CallComputeBaseCategoryName(task_text, signals)
    \/ \E task_text \in TaskPool, signals \in SignalPool, tmpl \in TemplateMaps :
           CallMapCategory(task_text, signals, tmpl)
    \/ \E headers \in HeaderLists : CallOrganizeHeaders(headers)
    \/ \E task_text \in SignalTexts : CallParseSignals(task_text)
    \/ \E row \in ClassifierRows : CallClassifyRow(row)

SpecFn == FnInit /\ [][FnNext]_vars

(***************************************************************************)
(* process_lennar_file (worker_tasks.py) and the job stores (jobs.py).     *)
(* job.job_storage is the entry of the job in the in-memory dict, None     *)
(* when there is none; job.redis its hash in Redis; job.redis_conn tells   *)
(* whether a Redis connection exists; job.parsed_rows is the list the      *)
(* parser returned; out holds what aggregate_data returned.  A progress is *)
(* in tenths.  The parser and the writer either return or raise; the rows  *)
(* the parser returns are schemas.ParsedRow objects.                       *)
(***************************************************************************)
\* most rows the parser returns
MaxParsedRows == 3

\* rows parse_row builds from the data rows of a sheet: schemas.ParsedRow
\* objects, with and without a lot and a task text
SheetRows ==
    {row \in RowPool : "task_text_raw" \notin DOMAIN row}
        \cup { ParsedRow(Some(Lot101), Some(<<"1">>), None, None, None,
                         Some(TaskTexts[5]), Some(50), None, None),
               ParsedRow(None, Some(<<"1">>), None, None, None,
                         Some(TaskTexts[5]), Some(50), None, None),
               ParsedRow(Some(<<>>), Some(<<"2">>), Some(<<"B">>), None, None,
                         Some(TaskTexts[4]), None, None, Some(100)),
               ParsedRow(Some(Lot7), Some(<<"3">>), Some(<<"A">>), None, None,
                         Some(<<>>), None, None, Some(30)) }

\* the lists parse_lennar_export returns: a row without lot_block or
\* without task_text is skipped, the other rows are kept in order
RECURSIVE ParsedRowLists(_)
ParsedRowLists(n) ==
    IF n = 0 THEN {<<>>}
    ELSE ParsedRowLists(n - 1)
             \cup {Append(l, row) : l \in {x \in ParsedRowLists(n - 1) : Len(x) = n - 1},
                                    row \in {x \in SheetRows : Truthy(x.lot_block)
                                                                  /\ Truthy(x.task_text)}}

\* set_job(job_id, data): always stored in memory; with a connection also
\* in Redis, where a failing hset is logged and the old hash stays.  The
\* hash holds the four fields as strings.
set_job(store, data, hset_ok) ==
    [store EXCEPT
        !.job_storage = Some(data),
        !.redis = IF store.redis_conn /\ hset_ok
                  THEN Some([status   |-> data.status,
                             progress |-> data.progress,
                             message  |-> data.message,
                             result   |-> IF data.result = None THEN "None"
                                          ELSE "str(result)"])
                  ELSE @]

\* get_job(job_id): the entry in memory first; else, with a connection,
\* the entry rebuilt from the hash in Redis, whose result is None when the
\* hash says "None" and the evaluated string otherwise; None when there is
\* no hash, or when hgetall or the conversion raises (the exception is
\* logged)
get_job(store, hgetall_ok) ==
    IF store.job_storage # None THEN store.job_storage
    ELSE IF store.redis_conn /\ hgetall_ok /\ store.redis # None
    THEN Some([status   |-> store.redis[1].status,
               progress |-> store.redis[1].progress,
               message  |-> store.redis[1].message,
               result   |-> IF store.redis[1].result = "None" THEN None
                            ELSE Some("result_data")])
    ELSE None

\* update_job_progress(job_id, progress, message): nothing is done when
\* get_job finds no entry; an empty message ('', written <<>> or <<"">>)
\* leaves the stored message as it is
update_job_progress(store, progress, message, hgetall_ok, hset_ok) ==
    IF get_job(store, hgetall_ok) = None THEN store
    ELSE set_job(store,
                 [get_job(store, hgetall_ok)[1] EXCEPT
                     !.progress = progress,
                     !.message = IF message \in {<<>>, <<"">>} THEN @ ELSE message],
                 hset_ok)

\* a faulty variant: the handler only logs and stores nothing
job_failed_not_stored(store, e, hset_ok) == store

\* the "except Exception" handler of process_lennar_file; e is the
\* exception, whose text goes into the message
job_failed(store, e, hset_ok) ==
    set_job(store, [status |-> "failed", progress |-> 0,
                    message |-> <<"Processing failed", e>>, result |-> None], hset_ok)

\* process_lennar_file is called for a job the route has stored as queued,
\* or for one the process has no entry of
JobInit ==
    /\ template = None
    /\ mapper = CategoryMapper(None)
    /\ calls = <<>>
    /\ rows = <<>>
    /\ agg = EmptyAgg
    /\ out = None
    /\ fcall = None
    /\ pc = "start"
    /\ \E redis_conn \in BOOLEAN, in_memory \in BOOLEAN, in_redis \in BOOLEAN :
           LET queued == [status |-> "queued", progress |-> 0,
                          message |-> <<"File uploaded, job queued">>, result |-> None]
           IN  job = [job_storage |-> IF in_memory THEN Some(queued) ELSE None,
                      redis       |-> IF redis_conn /\ in_redis
                                      THEN Some([queued EXCEPT !.result = "None"])
                                      ELSE None,
                      redis_conn  |-> redis_conn,
                      parsed_rows |-> <<>>]

\* the status is set to running
JobStart(hset_ok) ==
    /\ pc = "start"
    /\ job' = set_job(job, [status |-> "running", progress |-> 0,
                            message |-> <<"Starting file processing">>,
                            result |-> None], hset_ok)
    /\ pc' = "parse"
    /\ UNCHANGED <<template, mapper, calls, rows, agg, out, fcall>>

\* step 1, line 37: the progress is stored before the parser is called
JobParseProgress(hgetall_ok, hset_ok) ==
    /\ pc = "parse"
    /\ job' = update_job_progress(job, 1, <<"Parsing Excel file">>, hgetall_ok, hset_ok)
    /\ pc' = "parsing"
    /\ UNCHANGED <<template, mapper, calls, rows, agg, out, fcall>>

\* step 1, lines 38-48: parse_lennar_export raises, returns no rows, or
\* returns parsed_rows
JobParse(raises, parsed_rows, hset_ok) ==
    /\ pc = "parsing"
    /\ IF raises
       THEN /\ job' = job_failed(job, "raised by parse_lennar_export", hset_ok)
            /\ pc' = "returned"
       ELSE IF parsed_rows = <<>>
       THEN /\ job' = set_job(job, [status |-> "failed", progress |-> 1,
                                    message |-> <<"No valid data rows found in Excel file">>,
                                    result |-> None], hset_ok)
            /\ pc' = "returned"
       ELSE /\ job' = [job EXCEPT !.parsed_rows = parsed_rows]
            /\ pc' = "aggregate"
    /\ UNCHANGED <<template, mapper, calls, rows, agg, out, fcall>>

\* step 2, line 51: the progress is stored before aggregate_data is called
JobAggregateProgress(hgetall_ok, hset_ok) ==
    /\ pc = "aggregate"
    /\ job' = update_job_progress(job, 5, <<"Processing rows", Len(job.parsed_rows)>>,
                                  hgetall_ok, hset_ok)
    /\ pc' = "aggregating"
    /\ UNCHANGED <<template, mapper, calls, rows, agg, out, fcall>>

\* what follows the loop of aggregate_data, which has ended in st: when a
\* row raised, the handler stores the failure with the text of the
\* exception; else the call returns its result and nothing is stored
JobAggregated(st, hset_ok) ==
    IF st.raised
    THEN /\ job' = job_failed(job, "'ParsedRow' object has no attribute 'task_text_raw'",
                              hset_ok)
         /\ out' = out
         /\ pc' = "returned"
    ELSE /\ job' = job
         /\ out' = Some(aggregate_result(st.self, st.agg, QaMeta))
         /\ pc' = "write"

\* step 2, line 52: aggregate_data(parsed_rows, qa_meta) is called without
\* a template
JobAggregate(hset_ok) ==
    /\ pc = "aggregating"
    /\ JobAggregated(aggregate_rows([self |-> CategoryMapper(None), agg |-> EmptyAgg,
                                     raised |-> FALSE], job.parsed_rows, 1), hset_ok)
    /\ UNCHANGED <<template, mapper, calls, rows, agg, fcall>>

\* step 3, line 64: the progress is stored before the writer is called.
\* aggregate_data raises on every non-empty list of ParsedRowLists, so no
\* state has pc = "write": this step and the next are enabled in no state
\* of process_lennar_file and are no disjuncts of JobNext.
JobWriteProgress(hgetall_ok, hset_ok) ==
    /\ pc = "write"
    /\ job' = update_job_progress(job, 8, <<"Generating output Excel file">>,
                                  hgetall_ok, hset_ok)
    /\ pc' = "writing"
    /\ UNCHANGED <<template, mapper, calls, rows, agg, out, fcall>>

\* steps 3 and 4, lines 65-96: write_summary_excel raises, or it returns
\* and the job is marked as succeeded
JobWrite(raises, hset_ok) ==
    /\ pc = "writing"
    /\ job' = IF raises
              THEN job_failed(job, "raised by write_summary_excel", hset_ok)
              ELSE set_job(job, [status |-> "succeeded", progress |-> 10,
                                 message |-> <<"Successfully processed",
                                               Len(job.parsed_rows),
                                               Len(out[1].summary_rows)>>,
                                 result |-> Some("result_data")], hset_ok)
    /\ pc' = "returned"
    /\ UNCHANGED <<template, mapper, calls, rows, agg, out, fcall>>

JobNext ==
    \/ \E hset_ok \in BOOLEAN : JobStart(hset_ok)
    \/ \E hgetall_ok \in BOOLEAN, hset_ok \in BOOLEAN :
           JobParseProgress(hgetall_ok, hset_ok)
    \/ \E raises \in BOOLEAN, parsed_rows \in ParsedRowLists(MaxParsedRows),
          hset_ok \in BOOLEAN :
           JobParse(raises, parsed_rows, hset_ok)
    \/ \E hgetall_ok \in BOOLEAN, hset_ok \in BOOLEAN :
           JobAggregateProgress(hgetall_ok, hset_ok)
    \/ \E hset_ok \in BOOLEAN : JobAggregate(hset_ok)

SpecJob == JobInit /\ [][JobNext]_vars

(***************************************************************************)
(* Properties of aggregate_data (checked under SpecAgg)                    *)
(***************************************************************************)
\* the (group, category) cells of the accumulator
CellsOf(data) ==
    UNION {{<<g, c>> : c \in DOMAIN data.val[g]} : g \in DOMAIN data.val}
\* the amount in a cell; a cell that does not exist yet holds nothing
CellValue(data, cell) ==
    IF cell \in CellsOf(data) THEN data.val[cell[1]][cell[2]] ELSE 0

\* the row carries task text, raw or cleaned
HasText(row) ==
    Truthy(IF "task_text_raw" \in DOMAIN row /\ Truthy(row.task_text_raw)
           THEN row.task_text_raw ELSE row.task_text)

\* the category columns of a summary row: the row without its fixed keys
Cells(r) == [h \in DOMAIN r \ {Lit.lot_block, Lit.plan, Lit.total} |-> r[h]]

RECURSIVE SumSeq(_)
SumSeq(s) == IF s = <<>> THEN 0 ELSE s[1] + SumSeq(Tail(s))

\* the step consumed a row with task text: one cell, in the row's group,
\* grew by the row's amount and every other cell kept its value
RowAddsToOneCell ==
    (rows' # rows /\ HasText(rows'[Len(rows')])) =>
        LET row   == rows'[Len(rows')]
            data  == agg.aggregated_data
            data2 == agg'.aggregated_data
        IN  /\ CellsOf(data) \subseteq CellsOf(data2)
            /\ \E cell \in CellsOf(data2) :
                  /\ cell[1] = row_group_key(row)
                  /\ CellValue(data2, cell) = CellValue(data, cell) + row_amount(row)
                  /\ \A other \in CellsOf(data2) \ {cell} :
                        CellValue(data2, other) = CellValue(data, other)

\* in every returned summary row the category columns add up to the total
RowTotalsAddUp ==
    pc = "done" =>
        \A i \in 1..Len(out[1].summary_rows) :
            LET r == out[1].summary_rows[i]
            IN  /\ DOMAIN Cells(r) =
                      {out[1].final_headers[k] : k \in 1..Len(out[1].final_headers)}
                /\ SumValues(Cells(r)) = r[Lit.total]

\* C1: every row with non-empty task text adds its amount to exactly one
\* (group, category) cell, and in every returned summary row the values
\* under the final category headers add up to the row's total.
C1_EveryAmountInOneCell == [](RowTotalsAddUp) /\ [][RowAddsToOneCell]_vars

\* a returned summary row with two filled category columns, one of them
\* holding the 100 and the 200 of two rows of the same house
C1_Witness ==
    /\ pc = "done"
    /\ \E i \in 1..Len(out[1].summary_rows) :
          LET r == out[1].summary_rows[i]
          IN  /\ Cardinality({h \in DOMAIN Cells(r) : r[h] # 0}) >= 2
              /\ \E h \in DOMAIN Cells(r) : r[h] = 300

(***************************************************************************)
(* Properties of CategoryMapper (checked under Spec)                       *)
(***************************************************************************)
\* C2: for every task text, map_task returns a category_display that is
\* neither null nor the empty string.
C2_CategoryNeverEmpty ==
    \A i \in 1..Len(calls) :
        /\ calls[i].result.category_display # None
        /\ calls[i].result.category_display # <<>>

\* no two entries of headers share a canonical form
CanonicalsDistinct(headers) ==
    \A i, j \in 1..Len(headers) :
        i # j => canonical(headers[i]) # canonical(headers[j])

\* C3: in every state of a CategoryMapper no two entries of category_headers
\* have the same canonical form, and every header h satisfies
\* template_canon_to_display[canonical(h)] = h.
C3_HeadersCanonicallyUnique ==
    /\ CanonicalsDistinct(mapper.category_headers)
    /\ \A i \in 1..Len(mapper.category_headers) :
          LET h == mapper.category_headers[i]
          IN  /\ canonical(h) \in DOMAIN mapper.template_canon_to_display
              /\ mapper.template_canon_to_display[canonical(h)] = h

\* C4: once map_task(t) has returned category C, every later map_task(t) on
\* the same mapper returns C again.
C4_MapTaskStable ==
    \A i, j \in 1..Len(calls) :
        (i < j /\ calls[i].task_text = calls[j].task_text) =>
            calls[j].result.category_display = calls[i].result.category_display

\* call j maps a text other than that of the earlier call i, which
\* auto-created its category; no template rule matches the text of call j and
\* its synthesized base name has the canonical form of that category
CollidesWithCreated(i, j) ==
    LET t2      == calls[j].task_text
        signals == parse_signals(t2)
    IN  /\ i < j
        /\ calls[i].result.is_new_category
        /\ t2 # calls[i].task_text
        /\ ~Truthy(map_category(t2, signals,
                                calls[j].before.template_canon_to_display).category_display)
        /\ canonical(compute_base_category_name(t2, signals))
               = canonical(calls[i].result.category_display)

\* C5: after map_task(t1) auto-created category C, a later map_task(t2) for
\* a different text that matches no template rule and whose base name has
\* the canonical form of C returns C with is_new_category false and adds no
\* entry to category_headers or created_categories.
C5_CreatedCategoryReused ==
    \A i, j \in 1..Len(calls) :
        CollidesWithCreated(i, j) =>
            /\ calls[j].result.category_display = calls[i].result.category_display
            /\ ~calls[j].result.is_new_category
            /\ calls[j].after.category_headers = calls[j].before.category_headers
            /\ calls[j].after.created_categories = calls[j].before.created_categories

\* two different texts with the same scope, the second after the first
\* created the category, with another category created in between
C5_Witness ==
    /\ Len(calls) = 3
    /\ CollidesWithCreated(1, 3)
    /\ calls[2].result.is_new_category

\* C8: for any task with is_ua true whose scope fragment is 35 characters or
\* longer, the name synthesized by compute_base_category_name and
\* create_category_name ends with " UA".
C8_UaSuffixKept ==
    \A i \in 1..Len(calls) :
        LET t       == calls[i].task_text
            signals == parse_signals(t)
        IN  (signals.is_ua /\ Len(extract_scope_fragment(t)) >= max_len) =>
                /\ EndsWith(compute_base_category_name(t, signals), Lit.SP_UA)
                /\ EndsWith(create_category_name(t, signals,
                                get_all_canonicals(calls[i].before)), Lit.SP_UA)

\* the rows that carry task text, in input order; mapping_details has one
\* entry for each of them
TextRows == SelectSeq(rows, LAMBDA r : HasText(r))

\* the amounts of the rows of one house that were mapped to one category, in
\* input order
Occurrences(group_key, category) ==
    LET hit(k) == /\ row_group_key(TextRows[k]) = group_key
                  /\ agg.mapping_details[k].category = category
        idx    == {k \in 1..Len(TextRows) : hit(k)}
        nth(n) == CHOOSE k \in idx : Cardinality({m \in idx : m < k}) = n - 1
    IN  [n \in 1..Cardinality(idx) |-> row_amount(TextRows[nth(n)])]

\* "TOUCH UP", "TOUCH UP (2)", ...
NumberedHeader(category, n) ==
    IF n = 1 THEN category
    ELSE category \o <<" ", "(">> \o IntToStr(n) \o <<")">>

\* C6: when several rows of one house map to the same category, each amount
\* is kept as its own occurrence: the final headers contain the category and
\* its numbered variants, and the summary row holds each amount under its
\* own numbered header.
C6_OccurrencesKeptApart ==
    pc = "done" =>
        \A i \in 1..Len(out[1].summary_rows) :
            LET r == out[1].summary_rows[i]
            IN  \A k \in 1..Len(agg.mapping_details) :
                    LET category == agg.mapping_details[k].category
                        occ      == Occurrences(<<r[Lit.lot_block], r[Lit.plan]>>, category)
                    IN  \A n \in 1..Len(occ) :
                            /\ NumberedHeader(category, n) \in DOMAIN Cells(r)
                            /\ r[NumberedHeader(category, n)] = occ[n]

\* C7: the totals of all summary rows add up to the amounts of all input
\* rows, the rows with empty or missing task text included.
C7_NoDollarsLost ==
    pc = "done" =>
        SumSeq([i \in 1..Len(out[1].summary_rows) |-> out[1].summary_rows[i][Lit.total]])
            = SumSeq([i \in 1..Len(rows) |-> row_amount(rows[i])])

\* the distinct group keys of a list of rows, in order of first appearance
RECURSIVE FirstSeen(_, _)
FirstSeen(rs, seen) ==
    IF rs = <<>> THEN <<>>
    ELSE LET g == row_group_key(rs[1])
         IN  IF g \in seen THEN FirstSeen(Tail(rs), seen)
             ELSE <<g>> \o FirstSeen(Tail(rs), seen \cup {g})

\* C9: one summary row per distinct (cleaned lot, combined plan) group of
\* the input, in the order of each group's first row in the input.
C9_OneRowPerGroupInInputOrder ==
    pc = "done" =>
        [i \in 1..Len(out[1].summary_rows) |->
            <<out[1].summary_rows[i][Lit.lot_block], out[1].summary_rows[i][Lit.plan]>>]
            = FirstSeen(rows, {})

\* no keyword rule (1 to 5) of map_category fires
NoKeywordRule(signals) ==
    /\ ~signals.keyword_baseshoe
    /\ ~signals.keyword_undercoat
    /\ ~signals.keyword_touchup
    /\ ~signals.keyword_rollwalls
    /\ ~(signals.is_ext /\ signals.keyword_prime)

\* the headers the mapper was constructed with
InitialHeaders == CategoryMapper(template).category_headers

\* header is an entry of the template whose canonical form is one of generic
GenericTemplateEntry(header, generic) ==
    /\ \E k \in 1..Len(InitialHeaders) : InitialHeaders[k] = header
    /\ canonical(header) \in generic

\* the result of a call is a category that map_task created, in this call
\* or an earlier one
ReturnsCreated(call) ==
    \E k \in 1..Len(call.after.created_categories) :
        call.after.created_categories[k].header = call.result.category_display

\* C10: a task that fires no keyword rule, carries only the exterior (resp.
\* interior) signal and has a non-empty scope core without the word EXTERIOR
\* or EXT (resp. INTERIOR or INT) is never given the generic template entry
\* EXTERIOR / EXTERIOR UA (resp. INTERIOR / INTERIOR UA); it gets an
\* auto-created or previously created category.
C10_DistinctiveScopeNotGeneric ==
    \A i \in 1..Len(calls) :
        LET t       == calls[i].task_text
            signals == parse_signals(t)
            core    == scope_core_of(t)
            display == calls[i].result.category_display
        IN  /\ (/\ NoKeywordRule(signals)
                /\ signals.is_ext /\ ~signals.is_int
                /\ core # <<>>
                /\ ~HasWord(core, Lit.EXTERIOR) /\ ~HasWord(core, Lit.EXT))
               => /\ ~GenericTemplateEntry(display, {Lit.EXTERIOR, Lit.EXTERIOR_UA})
                  /\ ReturnsCreated(calls[i])
            /\ (/\ NoKeywordRule(signals)
                /\ signals.is_int /\ ~signals.is_ext
                /\ core # <<>>
                /\ ~HasWord(core, Lit.INTERIOR) /\ ~HasWord(core, Lit.INT))
               => /\ ~GenericTemplateEntry(display, {Lit.INTERIOR, Lit.INTERIOR_UA})
                  /\ ReturnsCreated(calls[i])

(***************************************************************************)
(* Properties of the module-level functions (checked under SpecFn)         *)
(***************************************************************************)
\* the last call was a call of fn
IsCall(fn) == fcall # None /\ fcall[1].fn = fn

\* C11: for every non-empty input, clean_lot_number returns a non-empty
\* string that does not end in "/" or a space and has no leading "0" unless
\* it is exactly "0" ("0044/" gives "44", "0000" gives "0", "101" gives
\* "101"), and applying the function to its result changes nothing.
C11_CleanLotNumberNormalForm ==
    /\ clean_lot_number(Lot0044) = Lot44
    /\ clean_lot_number(<<"0","0","0","0">>) = <<"0">>
    /\ clean_lot_number(Lot101) = Lot101
    /\ (IsCall("clean_lot_number") /\ fcall[1].args[1] # <<>>) =>
          LET r == fcall[1].ret
          IN  /\ r # <<>>
              /\ r[Len(r)] \notin {"/", " "}
              /\ (r[1] = "0" => r = <<"0">>)
              /\ clean_lot_number(r) = r

\* clean_lot_number was called with "0044/", which has leading zeros and a
\* trailing slash
C11_Witness ==
    /\ IsCall("clean_lot_number")
    /\ fcall[1].args[1] = Lot0044
    /\ fcall[1].ret = Lot44

\* The rule table of map_category as the claims word it: rule k of 1..9 has
\* a signal and a template entry.
\* the signal of rule k fired
RuleFired(k, signals, scope_core) ==
    CASE k = 1 -> signals.keyword_baseshoe
      [] k = 2 -> signals.keyword_undercoat
      [] k = 3 -> signals.keyword_touchup
      [] k = 4 -> signals.keyword_rollwalls
      [] k = 5 -> signals.is_ext /\ signals.keyword_prime
      [] k = 6 -> signals.is_ext /\ signals.is_ua /\ scope_mentions_ext(scope_core)
      [] k = 7 -> signals.is_ext /\ ~signals.is_ua /\ scope_mentions_ext(scope_core)
      [] k = 8 -> signals.is_int /\ signals.is_ua /\ scope_mentions_int(scope_core)
      [] k = 9 -> signals.is_int /\ ~signals.is_ua /\ scope_mentions_int(scope_core)

\* the canonical key of the template entry of rule k
RuleEntry(k, signals) ==
    CASE k = 1 -> IF signals.is_ua THEN Lit.BASE_SHOE_UA ELSE Lit.BASE_SHOE
      [] k = 2 -> IF signals.is_ua THEN Lit.UNDERCOAT_UA ELSE Lit.UNDERCOAT
      [] k = 3 -> IF signals.is_ua THEN Lit.TOUCH_UP_UA ELSE Lit.TOUCH_UP
      [] k = 4 -> IF signals.is_ua THEN Lit.ROLL_WALLS_FINAL_UA ELSE Lit.ROLL_WALLS_FINAL
      [] k = 5 -> IF signals.is_ua THEN Lit.EXT_PRIME_UA ELSE Lit.EXT_PRIME
      [] k = 6 -> Lit.EXTERIOR_UA
      [] k = 7 -> Lit.EXTERIOR
      [] k = 8 -> Lit.INTERIOR_UA
      [] k = 9 -> Lit.INTERIOR

\* the rules whose signal fired and whose template entry exists
SatisfiedRules(signals, scope_core, tmpl) ==
    {k \in 1..9 : RuleFired(k, signals, scope_core)
                    /\ RuleEntry(k, signals) \in DOMAIN tmpl}

\* the keyword rules that fired for a UA task whose UA entry is absent
HaltingRules(signals, scope_core, tmpl) ==
    {k \in 1..5 : /\ signals.is_ua
                    /\ RuleFired(k, signals, scope_core)
                    /\ RuleEntry(k, signals) \notin DOMAIN tmpl}

\* the template entry of the first satisfied rule, None without one
FirstSatisfied(signals, sat, tmpl) ==
    IF sat = {} THEN None ELSE Some(tmpl[RuleEntry(Min(sat), signals)])

\* the same, except that a halting rule before the first satisfied rule
\* ends the evaluation without a category
FirstSatisfiedOrHalt(signals, sat, halting, tmpl) ==
    IF halting # {} /\ (sat = {} \/ Min(halting) < Min(sat)) THEN None
    ELSE FirstSatisfied(signals, sat, tmpl)

\* the arguments of the last call of map_category
McText == fcall[1].args[1]
McSignals == fcall[1].args[2]
McTmpl == fcall[1].args[3]

\* C12 as stated: map_category evaluates its rules in the order base shoe,
\* undercoat, touch-up, roll-walls, exterior+prime, exterior UA, exterior,
\* interior UA, interior and returns the template entry of the first rule
\* whose signal fired and whose template entry exists.
C12_FirstSatisfiedRuleWins ==
    IsCall("map_category") =>
        fcall[1].ret.category_display =
            FirstSatisfied(McSignals,
                SatisfiedRules(McSignals, scope_core_of(McText), McTmpl), McTmpl)

\* C12 amended: the same, unless a keyword rule fired earlier for a UA task
\* whose UA entry is absent from the template; then no category is returned.
C12_FirstSatisfiedRuleWinsUnlessHalted ==
    IsCall("map_category") =>
        fcall[1].ret.category_display =
            FirstSatisfiedOrHalt(McSignals,
                SatisfiedRules(McSignals, scope_core_of(McText), McTmpl),
                HaltingRules(McSignals, scope_core_of(McText), McTmpl), McTmpl)

\* a non-UA task with both the base shoe and the touch-up keyword, both
\* entries in the template, was mapped to BASE SHOE
C12_Witness ==
    /\ IsCall("map_category")
    /\ McSignals.keyword_baseshoe /\ McSignals.keyword_touchup /\ ~McSignals.is_ua
    /\ {Lit.BASE_SHOE, Lit.TOUCH_UP} \subseteq DOMAIN McTmpl
    /\ fcall[1].ret.category_display = Some(Lit.BASE_SHOE)

\* the reason a keyword rule gives when its UA entry is absent
UnmappedUaReason(k) ==
    CASE k = 1 -> "unmapped_baseshoe_ua"
      [] k = 2 -> "unmapped_undercoat_ua"
      [] k = 3 -> "unmapped_touchup_ua"
      [] k = 4 -> "unmapped_rollwalls_ua"
      [] k = 5 -> "unmapped_ext_prime_ua"

\* the keyword rules whose signal fired
FiredKeywordRules(signals) == {k \in 1..5 : RuleFired(k, signals, <<>>)}

\* C13: when a keyword rule is reached by a task with is_ua true and the
\* rule's UA template entry is absent, map_category returns no category
\* with that rule's unmapped_*_ua reason; it returns neither the rule's
\* non-UA entry nor the entry of a later rule.
C13_MissingUaEntryIsUnmapped ==
    (/\ IsCall("map_category")
     /\ McSignals.is_ua
     /\ FiredKeywordRules(McSignals) # {}
     /\ RuleEntry(Min(FiredKeywordRules(McSignals)), McSignals) \notin DOMAIN McTmpl)
    => fcall[1].ret = Unmatched(UnmappedUaReason(Min(FiredKeywordRules(McSignals))))

\* a UA base shoe task on a template with BASE SHOE and TOUCH UP UA but no
\* BASE SHOE UA, the touch-up keyword fired as well
C13_Witness ==
    /\ IsCall("map_category")
    /\ McSignals.is_ua /\ McSignals.keyword_baseshoe /\ McSignals.keyword_touchup
    /\ Lit.BASE_SHOE \in DOMAIN McTmpl
    /\ Lit.TOUCH_UP_UA \in DOMAIN McTmpl
    /\ Lit.BASE_SHOE_UA \notin DOMAIN McTmpl
    /\ fcall[1].ret = Unmatched("unmapped_baseshoe_ua")

(***************************************************************************)
(* Further properties of CategoryMapper (checked under Spec)               *)
(***************************************************************************)
\* C14: after any sequence of map_task calls on one mapper, no category has
\* been returned both for a task with is_ua true and for a task with is_ua
\* false.
C14_UaKeptApart ==
    \A i, j \in 1..Len(calls) :
        (calls[i].result.signals.is_ua /\ ~calls[j].result.signals.is_ua) =>
            calls[i].result.category_display # calls[j].result.category_display

\* the headers returned by the calls with is_new_category true, in call order
CreatedByCalls ==
    LET made == SelectSeq(calls, LAMBDA c : c.result.is_new_category)
    IN  [k \in 1..Len(made) |-> made[k].result.category_display]

\* C18: category_headers is the initial template list followed, in creation
\* order, by exactly one header per call that returned is_new_category
\* true; created_categories holds exactly those headers in the same order;
\* no existing header is removed, reordered or renamed.
C18_HeadersAppendOnly ==
    /\ mapper.category_headers = InitialHeaders \o CreatedByCalls
    /\ [k \in 1..Len(mapper.created_categories) |->
           mapper.created_categories[k].header] = CreatedByCalls
    /\ \A i \in 1..Len(calls) :
           SubSeq(calls[i].after.category_headers, 1,
                  Len(calls[i].before.category_headers))
               = calls[i].before.category_headers

\* three calls, two of which created a category and one of which did not
C18_Witness ==
    /\ Len(calls) = 3
    /\ Len(CreatedByCalls) = 2
    /\ ~calls[2].result.is_new_category

\* the categories at least one row was mapped to
MappedCategories ==
    {agg.mapping_details[k].category : k \in 1..Len(agg.mapping_details)}

\* C19: the final header list returned by aggregate_data contains exactly
\* the categories that at least one row was mapped to, each exactly once,
\* and no template or default category with zero rows.
C19_FinalHeadersAreMappedCategories ==
    pc = "done" =>
        /\ {out[1].final_headers[i] : i \in 1..Len(out[1].final_headers)}
               = MappedCategories
        /\ \A i, j \in 1..Len(out[1].final_headers) :
               i # j => out[1].final_headers[i] # out[1].final_headers[j]

(***************************************************************************)
(* Properties of the name synthesis (checked under SpecFn)                 *)
(***************************************************************************)
\* the arguments of the last call of compute_base_category_name
CbText == fcall[1].args[1]
CbSignals == fcall[1].args[2]
\* the upper-cased scope fragment the name starts from
CbFragment == fragment_name(extract_scope_fragment(CbText))

\* C15: compute_base_category_name never returns a name longer than 35
\* characters, the " UA" suffix included.
C15_NameAtMost35 ==
    IsCall("compute_base_category_name") => Len(fcall[1].ret) <= max_len

\* name begins with the prefix word p
HasPrefix(name, p) == name = p \/ StartsWith(name, p \o <<" ">>)

\* C16: a task with is_ext true whose upper-cased scope fragment neither
\* starts with EXT nor contains EXTERIOR gets the prefix "EXT " (also when
\* the fragment starts with INT); symmetrically a task with is_int true
\* (that did not get the exterior prefix) gets "INT "; and the name never
\* receives both prefixes.
C16_LocationPrefix ==
    IsCall("compute_base_category_name") =>
        LET ext_due == /\ CbSignals.is_ext
                       /\ ~StartsWith(CbFragment, Lit.EXT)
                       /\ ~Contains(CbFragment, Lit.EXTERIOR)
            int_due == /\ CbSignals.is_int
                       /\ ~ext_due
                       /\ ~StartsWith(CbFragment, Lit.INT)
                       /\ ~Contains(CbFragment, Lit.INTERIOR)
        IN  /\ ext_due => HasPrefix(fcall[1].ret, Lit.EXT)
            /\ int_due => HasPrefix(fcall[1].ret, Lit.INT)
            /\ ~StartsWith(fcall[1].ret, Lit.EXT_SP \o Lit.INT_SP)
            /\ ~StartsWith(fcall[1].ret, Lit.INT_SP \o Lit.EXT_SP)

(***************************************************************************)
(* Further properties of aggregate_data (checked under SpecAgg)            *)
(***************************************************************************)
\* the step consumed a row with empty or missing task text
SkippedRowStep == rows' # rows /\ ~HasText(rows'[Len(rows')])

\* the step raised the count of UNMAPPED by one and changed no other count,
\* no amount, no group, no appearance order and nothing of the mapper
OnlyCountsUnmapped ==
    /\ GetOr0(agg'.counts_per_category, Lit.UNMAPPED)
           = GetOr0(agg.counts_per_category, Lit.UNMAPPED) + 1
    /\ DOMAIN agg'.counts_per_category
           = DOMAIN agg.counts_per_category \cup {Lit.UNMAPPED}
    /\ \A c \in DOMAIN agg.counts_per_category \ {Lit.UNMAPPED} :
           agg'.counts_per_category[c] = agg.counts_per_category[c]
    /\ agg'.aggregated_data = agg.aggregated_data
    /\ agg'.appearance_order = agg.appearance_order
    /\ agg'.mapping_details = agg.mapping_details
    /\ mapper' = mapper

\* C17: a row with empty or missing task text only increments the count of
\* "UNMAPPED" by one: it changes no group's amounts, creates no group, does
\* not enter the appearance order and does not touch the mapper's
\* categories.
C17_RowWithoutTextOnlyCounted == [][SkippedRowStep => OnlyCountsUnmapped]_vars

\* a row without task text was consumed after a row that was aggregated, and
\* a second one after it
C17_Witness ==
    /\ Len(rows) = 3
    /\ HasText(rows[1])
    /\ ~HasText(rows[2])
    /\ ~HasText(rows[3])
    /\ agg.counts_per_category[Lit.UNMAPPED] = 2
    /\ Len(agg.aggregated_data.keys) = 1

(***************************************************************************)
(* Properties of organize_headers (checked under SpecFn)                   *)
(***************************************************************************)
\* the argument and the result of the last call of organize_headers
OhIn == fcall[1].args[1]
OhOut == fcall[1].ret
\* the positions of the non-UA headers in the result
NonUaPositions == {q \in 1..Len(OhOut) : is_non_ua_header(OhOut[q])}

\* the UA header at position p of the result stands where it belongs: with
\* a matched base, the nearest non-UA header before it is that base;
\* without one, no non-UA header comes after it
UaWellPlaced(p, base) ==
    IF base # None
    THEN /\ {q \in NonUaPositions : q < p} # {}
         /\ OhOut[Max({q \in NonUaPositions : q < p})] = base[1]
    ELSE \A q \in NonUaPositions : q < p

\* C20: in the output of organize_headers every UA-suffixed header that
\* matches a non-UA base header is placed after that base header and
\* before the next non-UA header; a UA header that matches no base is
\* placed after all non-UA headers.
C20_UaNextToBase ==
    IsCall("organize_headers") =>
        /\ \A i \in 1..Len(OhIn) :
               is_ua_header(OhIn[i]) => \E p \in 1..Len(OhOut) : OhOut[p] = OhIn[i]
        /\ \A p \in 1..Len(OhOut) :
               is_ua_header(OhOut[p]) =>
                   UaWellPlaced(p, ua_base(SelectSeq(OhIn, is_non_ua_header), OhOut[p]))

\* ['DOORS UA', 'EXTERIOR', 'GARAGE DOOR UA', 'INT DOORS'] came out as
\* ['EXTERIOR', 'INT DOORS', 'DOORS UA', 'GARAGE DOOR UA']
C20_Witness ==
    /\ IsCall("organize_headers")
    /\ OhIn = <<<<"D","O","O","R","S"," ","U","A">>, Lit.EXTERIOR, <<"G","A","R","A","G","E"," ","D","O","O","R"," ","U","A">>, <<"I","N","T"," ","D","O","O","R","S">>>>
    /\ OhOut = <<Lit.EXTERIOR, <<"I","N","T"," ","D","O","O","R","S">>, <<"D","O","O","R","S"," ","U","A">>, <<"G","A","R","A","G","E"," ","D","O","O","R"," ","U","A">>>>

(***************************************************************************)
(* Properties of the examples kept for the created categories              *)
(* (checked under SpecAgg)                                                 *)
(***************************************************************************)
\* the list holds no string twice
NoRepeats(s) == \A i, j \in 1..Len(s) : i # j => s[i] # s[j]

\* C21: for every auto-created category, the example_tasks list never
\* holds more than 3 entries and never holds the same task string twice,
\* after any sequence of map_task and add_example_to_created_category
\* calls, including the add_example call aggregate_data makes right after
\* a creation.
C21_ExamplesFewAndDistinct ==
    \A i \in 1..Len(mapper.created_categories) :
        /\ Len(mapper.created_categories[i].example_tasks) <= 3
        /\ NoRepeats(mapper.created_categories[i].example_tasks)

(***************************************************************************)
(* Properties of repeated calls of aggregate_data (checked under           *)
(* SpecSession)                                                            *)
(***************************************************************************)
\* C22: aggregate_data keeps no state between calls: each call builds its
\* own CategoryMapper, so what a call returns (summary rows, counts and
\* header lists) is determined by its rows and its template alone, whatever
\* aggregations ran before, and the caller's template list is not modified
\* while the call runs.  A call that raises returns nothing, and raises
\* for its rows and its template alone as well.
C22_CallsShareNoState ==
    /\ [](pc = "done" => out[1] = aggregate_data(rows, QaMeta, template))
    /\ [](pc = "raised" => out = None
                             /\ aggregate_data(rows, QaMeta, template) = AttributeError)
    /\ [][pc = "loop" => template' = template]_vars

\* a second call has returned after a first call that had auto-created a
\* category; it consumed two rows and its own mapper holds one created
\* category
C22_Witness ==
    /\ pc = "done"
    /\ calls = <<TRUE>>
    /\ Len(rows) = 2
    /\ Len(mapper.created_categories) = 1

(***************************************************************************)
(* Properties of the suspicious totals (checked under SpecAgg)             *)
(***************************************************************************)
\* the suspicious_totals entries of the group of a summary row
FlagsOf(sus, r) ==
    {k \in 1..Len(sus) : sus[k].lot_block = r[Lit.lot_block]
                             /\ sus[k].plan = r[Lit.plan]}

\* the entry carries the row's total, the reason that belongs to it, and the
\* row's total is the sum of what was accumulated for the group
FlagMatchesRow(e, r) ==
    /\ e.total = r[Lit.total]
    /\ e.reason = IF r[Lit.total] < 0 THEN "Negative total"
                  ELSE "Unusually high total (> $100k)"
    /\ r[Lit.total]
           = SumValues(agg.aggregated_data.val[<<r[Lit.lot_block], r[Lit.plan]>>])

\* every summary row is flagged once if its total is below 0 or above
\* 100000 and not at all otherwise, and every entry belongs to a summary row
SuspiciousExactly(sr, sus) ==
    /\ \A i \in 1..Len(sr) :
           /\ Cardinality(FlagsOf(sus, sr[i]))
                  = IF sr[i][Lit.total] < 0 \/ sr[i][Lit.total] > 100000
                    THEN 1 ELSE 0
           /\ \A k \in FlagsOf(sus, sr[i]) : FlagMatchesRow(sus[k], sr[i])
    /\ \A k \in 1..Len(sus) : \E i \in 1..Len(sr) : k \in FlagsOf(sus, sr[i])

\* C23: a group is listed in suspicious_totals if and only if its total is
\* below 0 or above 100000 (a total of exactly 0 or exactly 100000 is not
\* flagged), with the matching reason string, and a flagged group is still
\* emitted as a summary row with its total unchanged.
C23_SuspiciousIffOutOfRange ==
    pc = "done" =>
        SuspiciousExactly(out[1].summary_rows, out[1].qa_report.suspicious_totals)

\* three groups came out, with the totals 100000, 100001 and -20: the last
\* two are flagged
C23_Witness ==
    /\ pc = "done"
    /\ {out[1].summary_rows[i][Lit.total] : i \in 1..Len(out[1].summary_rows)}
           = {100000, 100001, 0 - 20}
    /\ Len(out[1].qa_report.suspicious_totals) = 2

(***************************************************************************)
(* Properties of parse_signals (checked under SpecFn)                      *)
(***************************************************************************)
\* the argument and the result of the last call of parse_signals
PsText == fcall[1].args[1]
PsSignals == fcall[1].ret

\* the text n contains the marker, the standalone word, or the long word
LocationIn(n, marker, word, long) ==
    Contains(n, marker) \/ HasWord(n, word) \/ Contains(n, long)

\* the number of entries of matched_keywords that are among entries
EntriesAmong(matched_keywords, entries) ==
    Cardinality({k \in 1..Len(matched_keywords) : matched_keywords[k] \in entries})

\* flag is set exactly when the location is in the text, and then one
\* entry for it is recorded, otherwise none
LocationSignal(flag, present, matched_keywords, entries) ==
    /\ flag = present
    /\ EntriesAmong(matched_keywords, entries) = IF present THEN 1 ELSE 0

\* C24: parse_signals sets is_ext exactly when the normalized text
\* contains the marker (EXT), a standalone word EXT, or the substring
\* EXTERIOR, and sets is_int by the same three tiers for INT/INTERIOR
\* independently of is_ext, so a text carrying markers of both kinds yields
\* both true; for each location that is true exactly one entry is recorded
\* in matched_keywords; empty text yields all-false signals and an empty
\* list.
C24_LocationSignals ==
    IsCall("parse_signals") =>
        /\ LocationSignal(PsSignals.is_ext,
               LocationIn(normalize_task_text(PsText), Lit.EXT_MARK, Lit.EXT, Lit.EXTERIOR),
               PsSignals.matched_keywords,
               {Lit.EXT_MARK, Lit.EXT_token, Lit.EXTERIOR})
        /\ LocationSignal(PsSignals.is_int,
               LocationIn(normalize_task_text(PsText), Lit.INT_MARK, Lit.INT, Lit.INTERIOR),
               PsSignals.matched_keywords,
               {Lit.INT_MARK, Lit.INT_token, Lit.INTERIOR})
        /\ PsText = <<>> => PsSignals = DefaultSignals

\* 'Exterior (int)' was parsed: both locations are set and the two entries
\* are 'EXTERIOR' and '(INT)'
C24_Witness ==
    /\ IsCall("parse_signals")
    /\ PsText = <<"E","x","t","e","r","i","o","r"," ","(","i","n","t",")">>
    /\ PsSignals.is_ext /\ PsSignals.is_int
    /\ PsSignals.matched_keywords = <<Lit.EXTERIOR, Lit.INT_MARK>>

(***************************************************************************)
(* Properties of the legacy classifier (checked under SpecFn)              *)
(***************************************************************************)
\* the task text the last call of classify_row classified, normalized
CrNormalized ==
    LET row == fcall[1].args[1]
    IN  classifier_normalize_task_text(
            IF "task_text_raw" \in DOMAIN row /\ Truthy(row.task_text_raw)
            THEN row.task_text_raw[1]
            ELSE OrEmpty(row.task_text))

\* the text has (INT), no (EXT), the word EXTERIOR and a prime keyword
IntMarkedExteriorPrime(normalized) ==
    /\ Contains(normalized, Lit.INT_MARK)
    /\ ~Contains(normalized, Lit.EXT_MARK)
    /\ HasWord(normalized, Lit.EXTERIOR)
    /\ classifier_parse_signals(normalized).keyword_prime

\* C25: in the legacy classifier, an explicit (INT) marker takes precedence
\* over the word Exterior appearing in the task text: classify_row returns
\* INTERIOR for a task such as
\* "Painting - Exterior / Prep & Enamel (437205) (INT) [LS]" that has (INT),
\* no (EXT), the word Exterior and a prime keyword.
C25_IntMarkerBeatsExteriorWord ==
    IsCall("classify_row") /\ IntMarkedExteriorPrime(CrNormalized)
        => fcall[1].ret = Lit.INTERIOR

C27_NoCreationNoChange ==
    \A k \in 1..Len(calls) :
        ~calls[k].result.is_new_category =>
            /\ calls[k].after.category_headers = calls[k].before.category_headers
            /\ calls[k].after.template_canon_to_display
                   = calls[k].before.template_canon_to_display
            /\ calls[k].after.created_categories = calls[k].before.created_categories
            /\ calls[k].after.created_canonicals = calls[k].before.created_canonicals

\* a category was created, then reused by a call with another text, then a
\* template category was matched
C27_Witness ==
    /\ Len(calls) = 3
    /\ calls[1].result.is_new_category
    /\ calls[2].result.reason = "reused_created_category"
    /\ calls[2].task_text # calls[1].task_text
    /\ ~calls[3].result.is_new_category
    /\ calls[3].result.reason # "reused_created_category"


\* C28: inside map_task the numeric-suffix loop of create_category_name
\* never fires: the canonical form of the base name is free whenever a
\* category is created, so every header that map_task auto-creates is
\* exactly compute_base_category_name(text, signals), without a counter.
C28_CreatedNameIsBaseName ==
    \A k \in 1..Len(calls) :
        calls[k].result.is_new_category =>
            LET base == compute_base_category_name(calls[k].task_text,
                                                   calls[k].result.signals)
                made == calls[k].after.created_categories
            IN  /\ canonical(base) \notin get_all_canonicals(calls[k].before)
                /\ calls[k].result.category_display = base
                /\ calls[k].after.category_headers
                       = Append(calls[k].before.category_headers, base)
                /\ made[Len(made)].header = base

\* a category was created and a later call with the same base name reused
\* it, where the loop would have appended " 2"; then another was created
C28_Witness ==
    /\ Len(calls) = 3
    /\ calls[1].result.is_new_category
    /\ calls[2].result.reason = "reused_created_category"
    /\ calls[2].result.category_display = calls[1].result.category_display
    /\ calls[3].result.is_new_category
    /\ calls[3].result.category_display # calls[1].result.category_display


(***************************************************************************)
(* Further properties of organize_headers (checked under SpecFn)           *)
(***************************************************************************)
\* C29: for any list of pairwise distinct headers, organize_headers returns
\* a permutation of its input (no header dropped, none duplicated) in which
\* the non-UA headers keep their relative input order, and applying
\* organize_headers to its own output returns the same list.
C29_PermutationStableIdempotent ==
    (IsCall("organize_headers") /\ NoRepeats(OhIn)) =>
        /\ Len(OhOut) = Len(OhIn)
        /\ NoRepeats(OhOut)
        /\ {OhOut[p] : p \in 1..Len(OhOut)} = {OhIn[i] : i \in 1..Len(OhIn)}
        /\ SelectSeq(OhOut, is_non_ua_header) = SelectSeq(OhIn, is_non_ua_header)
        /\ organize_headers(OhOut) = OhOut

\* ['GARAGE DOOR UA', 'EXT DOORS UA', 'TOUCH UP', 'EXT DOORS'] came out as
\* ['TOUCH UP', 'EXT DOORS', 'EXT DOORS UA', 'GARAGE DOOR UA']: a matched UA
\* header moved behind its base, an unmatched one moved to the end
C29_Witness ==
    /\ IsCall("organize_headers")
    /\ OhIn = <<<<"G","A","R","A","G","E"," ","D","O","O","R"," ","U","A">>, <<"E","X","T"," ","D","O","O","R","S"," ","U","A">>, Lit.TOUCH_UP, <<"E","X","T"," ","D","O","O","R","S">>>>
    /\ OhOut = <<Lit.TOUCH_UP, <<"E","X","T"," ","D","O","O","R","S">>, <<"E","X","T"," ","D","O","O","R","S"," ","U","A">>, <<"G","A","R","A","G","E"," ","D","O","O","R"," ","U","A">>>>

\* C30: in organize_headers, a UA header whose name minus the trailing " UA"
\* is exactly the name of a non-UA header in the list is placed after that
\* header and not after another one: with headers INT DOORS, EXT DOORS and
\* EXT DOORS UA, the header EXT DOORS UA follows EXT DOORS.
C30_UaFollowsNamesake ==
    IsCall("organize_headers") =>
        \A i \in 1..Len(OhIn), p \in 1..Len(OhOut) :
            (is_non_ua_header(OhIn[i]) /\ OhOut[p] = OhIn[i] \o Lit.SP_UA) =>
                UaWellPlaced(p, Some(OhIn[i]))

=============================================================================
